---- MODULE Spec2Model ----
(***************************************************************************)
(* CAAM DSA driver (core/drivers/crypto/caam/acipher/caam_dsa.c): the      *)
(* three orchestrators do_gen_keypair, do_sign and do_verify as step       *)
(* machines over the buffers, the job descriptor, the cache maintenance    *)
(* and the job ring.  One call runs at a time; its position is pc.         *)
(*                                                                         *)
(* DCP utilities (core/drivers/dcp/imx_dcp_utils.c): the cache-line        *)
(* aligned allocator dcp_calloc_align_buf / dcp_free over the heap, and    *)
(* left_shift_buffer as a loop over the bytes of its buffers.              *)
(***************************************************************************)
EXTENDS Integers, Sequences, FiniteSets, TLC

VARIABLES
    cfg64,  \* build configuration: CFG_CAAM_64BIT
    op,     \* the orchestrator running: "idle", "gen", "sign", "verify"
    pc,     \* its position
    in,     \* the call's arguments (sizes, lengths)
    key,    \* the caller's key object: bignums g, p, q, x, y
    key0,   \* the caller's key on entry
    sig,    \* the caller's signature buffer: its length field and whether written
    buf,    \* the call's local buffers and DMA objects, and the descriptor's storage
    desc,   \* the words of the job descriptor
    jr,     \* the job ring: what caam_jr_enqueue returned, jobctx.status, submissions
    gen,    \* number of calls of caam_prime_dsa_gen in this call
    log,    \* the call's events in program order
    bn,     \* the bignums of the key under do_allocate_keypair / _publickey
    ret,    \* the TEE_Result of the call
    other,  \* a second call in flight on another thread, not running now
    nsw,    \* the number of thread switches so far
    ctr,    \* DminLine field of the cache type register
    heap,   \* the areas calloc handed out and free has not taken back
    hdrs,   \* the struct mem_hdr written in front of each aligned buffer
    abuf,   \* the caller's struct align_buf: data, paddr, size
    drv,    \* the registration of the driver: what caam_dsa_init saw and did
    dcp,    \* the call of dcp_calloc_align_buf / dcp_free in progress
    lsb     \* the call of left_shift_buffer in progress

dcpVars == <<ctr, heap, hdrs, abuf, dcp, lsb>>

vars == <<cfg64, op, pc, in, key, key0, sig, buf, desc, jr, gen, log, bn, ret, other, nsw,
          drv, dcpVars>>

(***************************************************************************)
(* Bounds of the model.                                                    *)
(***************************************************************************)
LBytes == 2         \* l_bytes: width of p, g, y
NBytes == 1         \* n_bytes: width of q, x
SizeBits == 8       \* bits of size_t and vaddr_t, scaled down

(***************************************************************************)
(* Program constants.                                                      *)
(***************************************************************************)
MAX_DESC_KEY_GEN_64 == 14
MAX_DESC_KEY_GEN_32 == 9
MAX_DESC_SIGN_64 == 19
MAX_DESC_SIGN_32 == 12
MAX_DESC_VERIFY_64 == 21
MAX_DESC_VERIFY_32 == 13
SIGN_ALIGN == 16

KeyNames == {"g", "p", "q", "x", "y"}
DmaNames == {"msg", "sign_c", "sign_d"}
BufNames == KeyNames \cup DmaNames \cup {"tmp", "desc"}

\* size_t and vaddr_t arithmetic is modulo 2^SizeBits.
RECURSIVE Pow2(_)
Pow2(n) == IF n = 0 THEN 1 ELSE 2 * Pow2(n - 1)

SIZE_MAX == Pow2(SizeBits) - 1

\* (v + a - 1) & ~(a - 1) in the width of size_t, a a power of two.
ROUNDUP(v, a) == (((v + a - 1) % (SIZE_MAX + 1)) \div a) * a

(***************************************************************************)
(* The big-integer library: byte_length, to_bytes_big_endian,              *)
(* from_bytes_big_endian.                                                  *)
(***************************************************************************)
RECURSIVE crypto_bignum_num_bytes(_)
crypto_bignum_num_bytes(v) ==
    IF v = 0 THEN 0 ELSE 1 + crypto_bignum_num_bytes(v \div 256)

RECURSIVE crypto_bignum_bn2bin(_)
crypto_bignum_bn2bin(v) ==
    IF v = 0 THEN <<>> ELSE Append(crypto_bignum_bn2bin(v \div 256), v % 256)

RECURSIVE crypto_bignum_bin2bn(_)
crypto_bignum_bin2bn(s) ==
    IF s = <<>> THEN 0
    ELSE 256 * crypto_bignum_bin2bn(SubSeq(s, 1, Len(s) - 1)) + s[Len(s)]

Zeros(n) == [i \in 1..n |-> 0]

\* The scalar whose big-endian bytes are 1, 2, .., k.
RECURSIVE Ramp(_)
Ramp(k) == IF k = 0 THEN 0 ELSE 256 * Ramp(k - 1) + k

\* Caller scalars for a field of width w: absent, shorter, exact, one byte too long.
ScalarVals(w) == {Ramp(k) : k \in 0..(w + 1)}

Width(r) == IF r \in {"q", "x"} THEN NBytes ELSE LBytes

\* The keys of a sign or verify call: each scalar of fields is drawn from
\* ScalarVals, at most one of them other than a full-width value.
KeyChoices(fields) ==
    {k \in [g : ScalarVals(LBytes), p : ScalarVals(LBytes), q : ScalarVals(NBytes),
            x : ScalarVals(NBytes), y : ScalarVals(LBytes)] :
        /\ \A r \in KeyNames \ fields : k[r] = 0
        /\ \A r1, r2 \in fields :
               (k[r1] # Ramp(Width(r1)) /\ k[r2] # Ramp(Width(r2))) => r1 = r2}

(***************************************************************************)
(* Buffers.  A local state s is [buf, desc, log]; every helper maps a      *)
(* local state to the next one and appends what it did to the log.         *)
(***************************************************************************)
NoBuf == [st |-> "none", paddr |-> 0, len |-> 0, off |-> 0, data |-> <<>>, sgt |-> FALSE]

Ev(s, kind, r) == [s EXCEPT !.log = Append(@, <<kind, r>>)]

Live(b) == {r \in BufNames : b[r].st = "live"}

\* The allocator hands out the lowest free block; blocks are AddrStride
\* apart.  The heap is shared with the call in flight on the other thread.
AddrStride == 64
Blocks(b) == {b[r].paddr \div AddrStride : r \in Live(b)}
FreeAddr(b) ==
    LET used == Blocks(b) \cup Blocks(other.buf)
    IN  AddrStride * (CHOOSE k \in 1..(2 * Cardinality(BufNames) + 1) :
            k \notin used /\ \A j \in 1..(k - 1) : j \in used)

\* caam_calloc_buf, caam_calloc_align_buf, caam_calloc_desc: zeroed storage.
Calloc(s, r, n) ==
    Ev(Ev([s EXCEPT !.buf[r] = [st |-> "live", paddr |-> FreeAddr(s.buf),
                                len |-> n, off |-> 0, data |-> Zeros(n),
                                sgt |-> FALSE]],
          "alloc", r), "zero", r)

\* caam_alloc_align_buf: storage with indeterminate contents (-1).
Alloc(s, r, n) ==
    Ev([s EXCEPT !.buf[r] = [st |-> "live", paddr |-> FreeAddr(s.buf),
                             len |-> n, off |-> 0,
                             data |-> [i \in 1..n |-> -1], sgt |-> FALSE]],
       "alloc", r)

\* caam_free_buf, caam_free_desc, caam_dmaobj_free: nothing to do on a handle
\* that holds no storage; the handle is cleared.
Free(s, r) ==
    IF s.buf[r].st = "live"
    THEN Ev([s EXCEPT !.buf[r].st = "freed"], "free", r)
    ELSE s

cache_operation(s, kind, r) == Ev(s, kind, r)

\* Bytes written at data + off (off may be negative: the pointer then lies
\* before the buffer and the leading bytes land outside it).
WriteAt(data, off, bytes) ==
    [i \in 1..Len(data) |->
        IF i > off /\ i <= off + Len(bytes) THEN bytes[i - off] ELSE data[i]]

\* crypto_bignum_bn2bin(bn, buf.data + width - field_size)
EncodeAt(s, r, v, off) ==
    LET s1 == [s EXCEPT !.buf[r].data = WriteAt(@, off, crypto_bignum_bn2bin(v))]
        s2 == Ev(s1, "hwrite", r)
    IN  IF off < 0 \/ off + crypto_bignum_num_bytes(v) > s.buf[r].len
        THEN Ev(s2, "oob", r) ELSE s2

(***************************************************************************)
(* Descriptor helpers (caam_desc_init, caam_desc_add_word,                 *)
(* caam_desc_add_ptr, caam_desc_get_len, caam_desc_update_hdr).  A word is *)
(* [k, v, a, b, f]: kind, name, two numbers and the SGT flags.             *)
(***************************************************************************)
Word(k, v, a, b, f) == [k |-> k, v |-> v, a |-> a, b |-> b, f |-> f]

\* DESC_HEADER(0), DESC_HEADER_IDX(len, idx): a is the length, b the start index.
DESC_HEADER(len) == Word("HDR", "", len, 0, {})
DESC_HEADER_IDX(len, idx) == Word("HDR", "", len, idx, {})

caam_desc_get_len(d) == d[1].a

caam_desc_init(s) == Ev([s EXCEPT !.desc = <<Word("RAW", "", 0, 0, {})>>], "desc_init", "desc")

\* The word goes to desc[len] and the length kept in the first word grows by one.
caam_desc_add_word(s, w) ==
    LET len == caam_desc_get_len(s.desc)
        d1  == [i \in 1..(IF len + 1 > Len(s.desc) THEN len + 1 ELSE Len(s.desc)) |->
                   IF i = len + 1 THEN w ELSE s.desc[i]]
    IN  Ev([s EXCEPT !.desc = [d1 EXCEPT ![1].a = @ + 1]], "desc_add", "desc")

\* The upper and the lower 32 bits of an address.
High32(paddr) == (paddr \div 65536) \div 65536
Low32(paddr) == paddr - High32(paddr) * 65536 * 65536

\* A pointer is one word, or two (high, low) under CFG_CAAM_64BIT.
caam_desc_add_ptr(s, name, paddr, is64) ==
    IF is64
    THEN caam_desc_add_word(
             caam_desc_add_word(s, Word("PTR_HI", name, High32(paddr), 0, {})),
             Word("PTR_LO", name, Low32(paddr), 0, {}))
    ELSE caam_desc_add_word(s, Word("PTR", name, Low32(paddr), 0, {}))

caam_desc_update_hdr(s, w) == Ev([s EXCEPT !.desc[1] = w], "desc_hdr", "desc")

(***************************************************************************)
(* Key material codec.                                                     *)
(***************************************************************************)
\* Left-justified: the scalar at the start of the buffer.
PadOffsetLeft(width, field_size) == 0

\* data + width - field_size: the offset that right-justifies the scalar.
PadOffset(width, field_size) == width - field_size

\* caam_calloc_buf(&outkey->r, width), crypto_bignum_num_bytes and
\* crypto_bignum_bn2bin(inkey->r, outkey->r.data + width - field_size).
ConvScalar(s, r, v, width) ==
    EncodeAt(Calloc(s, r, width), r, v,
             PadOffset(width, crypto_bignum_num_bytes(v)))

Oom(s, r) == [s |-> Ev(s, "allocfail", r), rc |-> "CAAM_OUT_MEMORY"]

\* The four cache cleans that end do_keypriv_conv, without the one of x.
PrivCleanNoX(s) ==
    cache_operation(cache_operation(cache_operation(s,
        "clean", "g"), "clean", "p"), "clean", "q")

PrivClean(s) ==
    cache_operation(cache_operation(cache_operation(cache_operation(s,
        "clean", "g"), "clean", "p"), "clean", "q"), "clean", "x")

do_keypriv_conv(s, inkey, l_bytes, n_bytes, failAt) ==
    LET sg == ConvScalar(s, "g", inkey.g, l_bytes)
        sp == ConvScalar(sg, "p", inkey.p, l_bytes)
        sq == ConvScalar(sp, "q", inkey.q, n_bytes)
        sx == ConvScalar(sq, "x", inkey.x, n_bytes)
    IN  CASE failAt = "g" -> Oom(s, "g")
          [] failAt = "p" -> Oom(sg, "p")
          [] failAt = "q" -> Oom(sp, "q")
          [] failAt = "x" -> Oom(sq, "x")
          [] OTHER -> [s |-> PrivClean(sx), rc |-> "CAAM_NO_ERROR"]

PubClean(s) ==
    cache_operation(cache_operation(cache_operation(cache_operation(s,
        "clean", "g"), "clean", "p"), "clean", "q"), "clean", "y")

do_keypub_conv(s, inkey, l_bytes, n_bytes, failAt) ==
    LET sg == ConvScalar(s, "g", inkey.g, l_bytes)
        sp == ConvScalar(sg, "p", inkey.p, l_bytes)
        sq == ConvScalar(sp, "q", inkey.q, n_bytes)
        sy == ConvScalar(sq, "y", inkey.y, l_bytes)
    IN  CASE failAt = "g" -> Oom(s, "g")
          [] failAt = "p" -> Oom(sg, "p")
          [] failAt = "q" -> Oom(sp, "q")
          [] failAt = "y" -> Oom(sq, "y")
          [] OTHER -> [s |-> PubClean(sy), rc |-> "CAAM_NO_ERROR"]

(***************************************************************************)
(* Domain parameters.                                                      *)
(***************************************************************************)
DevSeeds == 2
\* What the device writes into a buffer of width w: bytes 1..w, or zeros
\* and a last byte (255, 254, ..).
DevBytes(w, d) ==
    IF d = 1 THEN [i \in 1..w |-> i]
    ELSE [i \in 1..w |-> IF i = w THEN 257 - d ELSE 0]

DevWrite(s, r, d) ==
    Ev([s EXCEPT !.buf[r].data = DevBytes(s.buf[r].len, d)], "dwrite", r)

\* caam_prime_dsa_gen: the device generates p, q and g into the three
\* buffers; they are flushed before the job and invalidated after it.
caam_prime_dsa_gen(s, ok, d) ==
    LET s1 == cache_operation(cache_operation(cache_operation(
                  Ev(s, "primegen", "job"), "flush", "p"), "flush", "q"), "flush", "g")
        s2 == DevWrite(DevWrite(DevWrite(s1, "p", d), "q", d), "g", d)
        s3 == cache_operation(cache_operation(cache_operation(s2,
                  "inval", "p"), "inval", "q"), "inval", "g")
    IN  IF ok THEN [s |-> s3, rc |-> "CAAM_NO_ERROR"]
        ELSE [s |-> s1, rc |-> "CAAM_FAILURE"]

\* Generate only when all three are absent.
NeedGenAll(in_q_size, in_g_size, in_p_size) ==
    in_q_size = 0 /\ in_g_size = 0 /\ in_p_size = 0

\* !in_q_size || !in_g_size || !in_p_size
NeedGen(in_q_size, in_g_size, in_p_size) ==
    in_q_size = 0 \/ in_g_size = 0 \/ in_p_size = 0

\* The copy back that leaves out the generator g.
CopyBackNoG(st, r) ==
    [s |-> Ev(st.s, "hread", r),
     key |-> IF r = "g" THEN st.key
             ELSE [st.key EXCEPT ![r] = crypto_bignum_bin2bn(st.s.buf[r].data)]]

\* crypto_bignum_bin2bn(outkey->r.data, outkey->r.length, key->r)
CopyBack(st, r) ==
    [s |-> Ev(st.s, "hread", r),
     key |-> [st.key EXCEPT ![r] = crypto_bignum_bin2bn(st.s.buf[r].data)]]

\* The encode branch: bn2bin right-justified, then a cache clean.
EncodeParam(s, r, v, width) ==
    cache_operation(
        EncodeAt(s, r, v, PadOffset(width, crypto_bignum_num_bytes(v))),
        "clean", r)

\* get_keypair_domain_params going on after a failed generation.
get_keypair_domain_params_no_check(s, k, l_bytes, n_bytes, failAt, genOk, d) ==
    LET sq == Calloc(s, "q", n_bytes)
        sg == Calloc(sq, "g", l_bytes)
        sp == Calloc(sg, "p", l_bytes)
        pg == caam_prime_dsa_gen(sp, genOk, d)
        cb == CopyBack(CopyBack(CopyBack([s |-> pg.s, key |-> k], "q"), "g"), "p")
        enc == EncodeParam(EncodeParam(EncodeParam(sp,
                   "q", k.q, n_bytes), "g", k.g, l_bytes), "p", k.p, l_bytes)
        fail(st, r) == [s |-> Ev(st, "allocfail", r), key |-> k, gen |-> 0,
                        ret |-> "TEE_ERROR_OUT_OF_MEMORY"]
    IN  CASE failAt = "q" -> fail(s, "q")
          [] failAt = "g" -> fail(sq, "g")
          [] failAt = "p" -> fail(sg, "p")
          [] OTHER ->
              IF NeedGen(crypto_bignum_num_bytes(k.q), crypto_bignum_num_bytes(k.g),
                         crypto_bignum_num_bytes(k.p))
              THEN [s |-> cb.s, key |-> cb.key, gen |-> 1, ret |-> "TEE_SUCCESS"]
              ELSE [s |-> enc, key |-> k, gen |-> 0, ret |-> "TEE_SUCCESS"]

get_keypair_domain_params(s, k, l_bytes, n_bytes, failAt, genOk, d) ==
    LET sq == Calloc(s, "q", n_bytes)
        sg == Calloc(sq, "g", l_bytes)
        sp == Calloc(sg, "p", l_bytes)
        in_g_size == crypto_bignum_num_bytes(k.g)
        in_p_size == crypto_bignum_num_bytes(k.p)
        in_q_size == crypto_bignum_num_bytes(k.q)
        pg == caam_prime_dsa_gen(sp, genOk, d)
        cb == CopyBack(CopyBack(CopyBack([s |-> pg.s, key |-> k], "q"), "g"), "p")
        enc == EncodeParam(EncodeParam(EncodeParam(sp,
                   "q", k.q, n_bytes), "g", k.g, l_bytes), "p", k.p, l_bytes)
        fail(st, r) == [s |-> Ev(st, "allocfail", r), key |-> k, gen |-> 0,
                        ret |-> "TEE_ERROR_OUT_OF_MEMORY"]
    IN  CASE failAt = "q" -> fail(s, "q")
          [] failAt = "g" -> fail(sq, "g")
          [] failAt = "p" -> fail(sg, "p")
          [] OTHER ->
              IF NeedGen(in_q_size, in_g_size, in_p_size)
              THEN IF pg.rc # "CAAM_NO_ERROR"
                   THEN [s |-> pg.s, key |-> k, gen |-> 1, ret |-> "TEE_ERROR_GENERIC"]
                   ELSE [s |-> cb.s, key |-> cb.key, gen |-> 1, ret |-> "TEE_SUCCESS"]
              ELSE [s |-> enc, key |-> k, gen |-> 0, ret |-> "TEE_SUCCESS"]

(***************************************************************************)
(* The state of a call.                                                    *)
(***************************************************************************)
Cur == [buf |-> buf, desc |-> desc, log |-> log]

Set(s) == buf' = s.buf /\ desc' = s.desc /\ log' = s.log

NoJob == [ret |-> "CAAM_FAILURE", status |-> 0, n |-> 0]
NoKey == [g |-> 0, p |-> 0, q |-> 0, x |-> 0, y |-> 0]
NoSig == [length |-> 0, copied |-> 0, written |-> FALSE]
NoBignums == [r \in KeyNames |-> "null"]
NoIn  == [l_bytes |-> 0, n_bytes |-> 0, size_sec |-> 0, msg_len |-> 0, sig_len |-> 0]

\* No call in flight: the state of a thread between two calls.
NoCall ==
    [op |-> "idle", pc |-> "idle", in |-> NoIn, key |-> NoKey, key0 |-> NoKey,
     sig |-> NoSig, buf |-> [r \in BufNames |-> NoBuf], desc |-> <<>>, jr |-> NoJob,
     gen |-> 0, log |-> <<>>, bn |-> NoBignums, ret |-> "TEE_ERROR_GENERIC"]

\* What caam_jr_enqueue may return, and the job status word it may leave.
JrRets == {"CAAM_NO_ERROR", "CAAM_JOB_STATUS", "CAAM_FAILURE"}
JobStatuses == {0, 1073741958}

\* job_status_to_tee_result: a device failure maps to the generic error.
job_status_to_tee_result(status) == "TEE_ERROR_GENERIC"

\* do_keypair_free without the public key.
do_keypair_free_no_y(s) ==
    Free(Free(Free(Free(s, "g"), "p"), "q"), "x")

do_keypair_free(s) ==
    Free(Free(Free(Free(Free(s, "g"), "p"), "q"), "x"), "y")

Fail(s, r, e) ==
    /\ Set(Ev(s, "allocfail", r))
    /\ ret' = e
    /\ pc' = "exit"

\* The header patch with the length one short.
HeaderPatchShort(s) ==
    LET desclen == caam_desc_get_len(s.desc)
    IN  caam_desc_update_hdr(s, DESC_HEADER_IDX(desclen - 1, desclen - 1))

\* desclen = caam_desc_get_len(desc);
\* caam_desc_update_hdr(desc, DESC_HEADER_IDX(desclen, desclen - 1));
HeaderPatch(s) ==
    LET desclen == caam_desc_get_len(s.desc)
    IN  caam_desc_update_hdr(s, DESC_HEADER_IDX(desclen, desclen - 1))

RECURSIVE DevWrites(_, _, _)
DevWrites(s, outs, d) ==
    IF outs = <<>> THEN s ELSE DevWrites(DevWrite(s, Head(outs), d), Tail(outs), d)

\* caam_jr_enqueue(&jobctx, NULL): the job is submitted once and the call
\* blocks until the transport reports (r, status); a job that ran to its
\* end has written its outputs.
Enqueue(s, r, status, outs, d) ==
    LET s1 == Ev(s, "enqueue", "job")
        s2 == IF r = "CAAM_NO_ERROR" THEN DevWrites(s1, outs, d) ELSE s1
    IN  /\ jr' = [ret |-> r, status |-> status, n |-> jr.n + 1]
        /\ Set(Ev(s2, "complete", "job"))

(***************************************************************************)
(* caam_dsa_init: the operations of driver_dsa are registered with the     *)
(* crypto API when the hardware has a public key unit; the API dispatches  *)
(* a DSA request to the operation registered under its name.               *)
(***************************************************************************)
driver_dsa ==
    [alloc_keypair |-> "do_allocate_keypair",
     alloc_publickey |-> "do_allocate_publickey",
     gen_keypair |-> "do_gen_keypair",
     sign |-> "do_sign",
     verify |-> "do_verify"]

\* What caam_hal_ctrl_pknum may report and drvcrypt_register_dsa return.
PkNums == {0, 1, 2}
RegisterResults == {"TEE_SUCCESS", "TEE_ERROR_GENERIC"}

NoDrv == [state |-> "boot", pknum |-> 0, attempts |-> 0, reg |-> "none",
          ops |-> {}, retstatus |-> "CAAM_FAILURE"]

\* The driver reported as initialised when there is no public key unit.
caam_dsa_init_no_pk_ok(pknum, reg) ==
    [state |-> "done", pknum |-> pknum,
     attempts |-> IF pknum # 0 THEN 1 ELSE 0,
     reg |-> IF pknum # 0 THEN reg ELSE "none",
     ops |-> IF pknum # 0 /\ reg = "TEE_SUCCESS" THEN DOMAIN driver_dsa ELSE {},
     retstatus |-> IF pknum = 0 \/ reg = "TEE_SUCCESS"
                   THEN "CAAM_NO_ERROR" ELSE "CAAM_FAILURE"]

\* caam_dsa_init when the hardware reports pknum units and the registration,
\* if it is called, returns reg.
caam_dsa_init(pknum, reg) ==
    [state |-> "done", pknum |-> pknum,
     attempts |-> IF pknum # 0 THEN 1 ELSE 0,
     reg |-> IF pknum # 0 THEN reg ELSE "none",
     ops |-> IF pknum # 0 /\ reg = "TEE_SUCCESS" THEN DOMAIN driver_dsa ELSE {},
     retstatus |-> IF pknum # 0 /\ reg = "TEE_SUCCESS"
                   THEN "CAAM_NO_ERROR" ELSE "CAAM_FAILURE"]

Call_caam_dsa_init ==
    /\ drv.state = "boot"
    /\ \E pknum \in PkNums, reg \in RegisterResults :
           drv' = caam_dsa_init(pknum, reg)
    /\ UNCHANGED <<dcpVars, cfg64, op, pc, in, key, key0, sig, buf, desc, jr, gen, log, bn,
                   ret, other, nsw>>

(***************************************************************************)
(* do_gen_keypair                                                          *)
(***************************************************************************)
Call_do_gen_keypair ==
    /\ op = "idle" /\ "gen_keypair" \in drv.ops
    /\ \E g \in ScalarVals(LBytes), p \in ScalarVals(LBytes), q \in ScalarVals(NBytes) :
           /\ key' = [NoKey EXCEPT !.g = g, !.p = p, !.q = q]
           /\ key0' = key'
    /\ in' = [NoIn EXCEPT !.l_bytes = (8 * LBytes) \div 8, !.n_bytes = (8 * NBytes) \div 8]
    /\ op' = "gen" /\ pc' = "g_desc"
    /\ ret' = "TEE_ERROR_GENERIC"
    /\ UNCHANGED <<dcpVars, drv, cfg64, other, nsw, bn, sig, buf, desc, jr, gen, log>>

G_AllocDesc ==
    /\ op = "gen" /\ pc = "g_desc"
    /\ \E ok \in BOOLEAN :
         IF ok
         THEN /\ Set(Calloc(Cur, "desc",
                     IF cfg64 THEN MAX_DESC_KEY_GEN_64 ELSE MAX_DESC_KEY_GEN_32))
              /\ pc' = "g_x"
              /\ UNCHANGED ret
         ELSE Fail(Cur, "desc", "TEE_ERROR_OUT_OF_MEMORY")
    /\ UNCHANGED <<dcpVars, drv, cfg64, other, nsw, bn, op, in, key, key0, sig, jr, gen>>

G_AllocX ==
    /\ op = "gen" /\ pc = "g_x"
    /\ \E ok \in BOOLEAN :
         IF ok
         THEN /\ Set(cache_operation(Calloc(Cur, "x", in.n_bytes), "flush", "x"))
              /\ pc' = "g_y"
              /\ UNCHANGED ret
         ELSE Fail(Cur, "x", "TEE_ERROR_OUT_OF_MEMORY")
    /\ UNCHANGED <<dcpVars, drv, cfg64, other, nsw, bn, op, in, key, key0, sig, jr, gen>>

G_AllocY ==
    /\ op = "gen" /\ pc = "g_y"
    /\ \E ok \in BOOLEAN :
         IF ok
         THEN /\ Set(cache_operation(Calloc(Cur, "y", in.l_bytes), "flush", "y"))
              /\ pc' = "g_dom"
              /\ UNCHANGED ret
         ELSE Fail(Cur, "y", "TEE_ERROR_OUT_OF_MEMORY")
    /\ UNCHANGED <<dcpVars, drv, cfg64, other, nsw, bn, op, in, key, key0, sig, jr, gen>>

G_DomainParams ==
    /\ op = "gen" /\ pc = "g_dom"
    /\ \E failAt \in {"none", "q", "g", "p"}, genOk \in BOOLEAN, d \in 1..DevSeeds :
         LET r == get_keypair_domain_params(Cur, key, in.l_bytes, in.n_bytes,
                                            failAt, genOk, d)
         IN  /\ Set(r.s)
             /\ key' = r.key
             /\ gen' = gen + r.gen
             /\ ret' = r.ret
             /\ pc' = IF r.ret # "TEE_SUCCESS" THEN "exit" ELSE "g_build"
    /\ UNCHANGED <<dcpVars, drv, cfg64, other, nsw, bn, op, in, key0, sig, jr>>

\* The key generation descriptor (PDB Public Key generation block).
GenDesc(s, is64, l_bytes, n_bytes) ==
    LET s1 == caam_desc_add_word(caam_desc_init(s), DESC_HEADER(0))
        s2 == caam_desc_add_word(s1, Word("PDB", "PDB_DL_KEY", l_bytes, n_bytes, {}))
        s3 == caam_desc_add_ptr(s2, "p", s.buf["p"].paddr, is64)
        s4 == caam_desc_add_ptr(s3, "q", s.buf["q"].paddr, is64)
        s5 == caam_desc_add_ptr(s4, "g", s.buf["g"].paddr, is64)
        s6 == caam_desc_add_ptr(s5, "x", s.buf["x"].paddr, is64)
        s7 == caam_desc_add_ptr(s6, "y", s.buf["y"].paddr, is64)
        s8 == caam_desc_add_word(s7, Word("OP", "PK_KEYPAIR_GEN", 0, 0, {}))
    IN  HeaderPatch(s8)

G_BuildDesc ==
    /\ op = "gen" /\ pc = "g_build"
    /\ Set(GenDesc(Cur, cfg64, in.l_bytes, in.n_bytes))
    /\ pc' = "g_enq"
    /\ UNCHANGED <<dcpVars, drv, cfg64, other, nsw, bn, op, in, key, key0, sig, jr, gen, ret>>

\* The submission repeated for as long as the transport reports a failure.
G_EnqueueRetry ==
    /\ op = "gen" /\ pc = "g_enq"
    /\ \E r \in JrRets, status \in JobStatuses, d \in 1..DevSeeds :
         /\ Enqueue(Cur, r, status, <<"x", "y">>, d)
         /\ pc' = IF r = "CAAM_NO_ERROR" THEN "g_res" ELSE "g_enq"
    /\ UNCHANGED <<dcpVars, drv, cfg64, other, nsw, bn, op, in, key, key0, sig, gen, ret>>

G_Enqueue ==
    /\ op = "gen" /\ pc = "g_enq"
    /\ \E r \in JrRets, status \in JobStatuses, d \in 1..DevSeeds :
         Enqueue(Cur, r, status, <<"x", "y">>, d)
    /\ pc' = "g_res"
    /\ UNCHANGED <<dcpVars, drv, cfg64, other, nsw, bn, op, in, key, key0, sig, gen, ret>>

\* The decode of x and y placed before their cache invalidate.
GenResultEarlyRead(s, k, j, bnx, bny) ==
    LET sx == Ev(s, "hread", "x")
        kx == [k EXCEPT !.x = crypto_bignum_bin2bn(s.buf["x"].data)]
        sy == Ev(sx, "hread", "y")
        ky == [kx EXCEPT !.y = crypto_bignum_bin2bn(s.buf["y"].data)]
        s1 == cache_operation(cache_operation(sy, "inval", "x"), "inval", "y")
    IN  IF j.ret = "CAAM_NO_ERROR"
        THEN IF ~bnx THEN [s |-> sx, key |-> k, ret |-> "TEE_ERROR_BAD_PARAMETERS"]
             ELSE IF ~bny THEN [s |-> sy, key |-> kx, ret |-> "TEE_ERROR_BAD_PARAMETERS"]
             ELSE [s |-> s1, key |-> ky, ret |-> "TEE_SUCCESS"]
        ELSE [s |-> s, key |-> k, ret |-> job_status_to_tee_result(j.status)]

\* What follows caam_jr_enqueue in do_gen_keypair: on success x and y are
\* invalidated and decoded into the caller's key; bnx, bny tell whether
\* crypto_bignum_bin2bn succeeds.
GenResult(s, k, j, bnx, bny) ==
    LET s1 == cache_operation(cache_operation(s, "inval", "x"), "inval", "y")
        sx == Ev(s1, "hread", "x")
        kx == [k EXCEPT !.x = crypto_bignum_bin2bn(s.buf["x"].data)]
        sy == Ev(sx, "hread", "y")
        ky == [kx EXCEPT !.y = crypto_bignum_bin2bn(s.buf["y"].data)]
    IN  IF j.ret = "CAAM_NO_ERROR"
        THEN IF ~bnx THEN [s |-> sx, key |-> k, ret |-> "TEE_ERROR_BAD_PARAMETERS"]
             ELSE IF ~bny THEN [s |-> sy, key |-> kx, ret |-> "TEE_ERROR_BAD_PARAMETERS"]
             ELSE [s |-> sy, key |-> ky, ret |-> "TEE_SUCCESS"]
        ELSE [s |-> s, key |-> k, ret |-> job_status_to_tee_result(j.status)]

G_Result ==
    /\ op = "gen" /\ pc = "g_res"
    /\ \E bnx \in BOOLEAN, bny \in BOOLEAN :
         LET r == GenResult(Cur, key, jr, bnx, bny)
         IN  /\ Set(r.s)
             /\ key' = r.key
             /\ ret' = r.ret
    /\ pc' = "exit"
    /\ UNCHANGED <<dcpVars, drv, cfg64, other, nsw, bn, op, in, key0, sig, jr, gen>>

\* exit_gen_keypair: caam_free_desc(&desc); do_keypair_free(&caam_dsa_key);
GenExit(s) == do_keypair_free(Free(s, "desc"))

G_Exit ==
    /\ op = "gen" /\ pc = "exit"
    /\ Set(GenExit(Cur))
    /\ pc' = "done"
    /\ UNCHANGED <<dcpVars, drv, cfg64, other, nsw, bn, op, in, key, key0, sig, jr, gen, ret>>

(***************************************************************************)
(* DMA objects (caam_dmaobj_init_input, caam_dmaobj_init_output,           *)
(* caam_dmaobj_derive, caam_dmaobj_cache_push, caam_dmaobj_copy_to_orig).  *)
(* e is the TEE_Result of the helper; sgt whether it built an SGT.         *)
(***************************************************************************)
DmaResults == {"TEE_SUCCESS", "TEE_ERROR_OUT_OF_MEMORY", "TEE_ERROR_GENERIC"}

DmaFail(s, r, e) ==
    Ev(s, IF e = "TEE_ERROR_OUT_OF_MEMORY" THEN "allocfail" ELSE "dmafail", r)

\* The object wraps (or copies) the caller's length bytes.
caam_dmaobj_init_input(s, r, length, sgt) ==
    Ev(Ev([s EXCEPT !.buf[r] = [st |-> "live", paddr |-> FreeAddr(s.buf),
                                len |-> length, off |-> 0, data |-> <<>>,
                                sgt |-> sgt]],
          "alloc", r), "hwrite", r)

\* The object's working buffer holds at least min_length bytes.
caam_dmaobj_init_output(s, r, length, min_length, sgt) ==
    Ev([s EXCEPT !.buf[r] = [st |-> "live", paddr |-> FreeAddr(s.buf),
                             len |-> IF length < min_length THEN min_length ELSE length,
                             off |-> 0, data |-> <<>>, sgt |-> sgt]],
       "alloc", r)

\* The derived object is the part [offset, offset + length) of the source.
caam_dmaobj_derive(s, r, from, offset, length) ==
    Ev([s EXCEPT !.buf[r] = [st |-> "live", paddr |-> s.buf[from].paddr + offset,
                             len |-> length, off |-> offset, data |-> <<>>,
                             sgt |-> s.buf[from].sgt]],
       "alloc", r)

caam_dmaobj_cache_push(s, r) == cache_operation(s, "clean", r)

SgtFlags(s) == {r \in DmaNames : s.buf[r].sgt}

(***************************************************************************)
(* do_sign                                                                 *)
(***************************************************************************)
SizeSecs == {NBytes, SIGN_ALIGN, SIGN_ALIGN + 4}
MsgLens == {4}

Call_do_sign ==
    /\ op = "idle" /\ "sign" \in drv.ops
    /\ \E k \in KeyChoices({"g", "p", "q", "x"}) :
           /\ key' = k
           /\ key0' = k
    /\ \E S \in SizeSecs, ml \in MsgLens :
           \E sl \in {S, 2 * S} :
               /\ in' = [l_bytes |-> LBytes, n_bytes |-> NBytes, size_sec |-> S,
                         msg_len |-> ml, sig_len |-> sl]
               /\ sig' = [NoSig EXCEPT !.length = sl]
    /\ op' = "sign" /\ pc' = "s_desc"
    /\ ret' = "TEE_ERROR_GENERIC"
    /\ UNCHANGED <<dcpVars, drv, cfg64, other, nsw, bn, buf, desc, jr, gen, log>>

\* The descriptor of do_sign allocated at the 32-bit capacity in every build.
S_AllocDescNo64 ==
    /\ op = "sign" /\ pc = "s_desc"
    /\ \E ok \in BOOLEAN :
         IF ok
         THEN /\ Set(Calloc(Cur, "desc", MAX_DESC_SIGN_32))
              /\ pc' = "s_key"
              /\ UNCHANGED ret
         ELSE Fail(Cur, "desc", "TEE_ERROR_OUT_OF_MEMORY")
    /\ UNCHANGED <<dcpVars, drv, cfg64, other, nsw, bn, op, in, key, key0, sig, jr, gen>>

S_AllocDesc ==
    /\ op = "sign" /\ pc = "s_desc"
    /\ \E ok \in BOOLEAN :
         IF ok
         THEN /\ Set(Calloc(Cur, "desc",
                     IF cfg64 THEN MAX_DESC_SIGN_64 ELSE MAX_DESC_SIGN_32))
              /\ pc' = "s_key"
              /\ UNCHANGED ret
         ELSE Fail(Cur, "desc", "TEE_ERROR_OUT_OF_MEMORY")
    /\ UNCHANGED <<dcpVars, drv, cfg64, other, nsw, bn, op, in, key, key0, sig, jr, gen>>

S_KeyConv ==
    /\ op = "sign" /\ pc = "s_key"
    /\ \E failAt \in {"none", "g", "p", "q", "x"} :
         LET r == do_keypriv_conv(Cur, key, in.l_bytes, in.n_bytes, failAt)
         IN  /\ Set(r.s)
             /\ IF r.rc # "CAAM_NO_ERROR"
                THEN ret' = "TEE_ERROR_OUT_OF_MEMORY" /\ pc' = "exit"
                ELSE UNCHANGED ret /\ pc' = "s_msg"
    /\ UNCHANGED <<dcpVars, drv, cfg64, other, nsw, bn, op, in, key, key0, sig, jr, gen>>

\* caam_dmaobj_init_input(&msg, ..); if (ret) goto exit; caam_dmaobj_cache_push(&msg)
MsgInput(s, length, e, sgt) ==
    IF e # "TEE_SUCCESS" THEN DmaFail(s, "msg", e)
    ELSE caam_dmaobj_cache_push(caam_dmaobj_init_input(s, "msg", length, sgt), "msg")

S_Msg ==
    /\ op = "sign" /\ pc = "s_msg"
    /\ \E e \in DmaResults, sgt \in BOOLEAN :
         /\ Set(MsgInput(Cur, in.msg_len, e, sgt))
         /\ ret' = e
         /\ pc' = IF e # "TEE_SUCCESS" THEN "exit" ELSE "s_signc"
    /\ UNCHANGED <<dcpVars, drv, cfg64, other, nsw, bn, op, in, key, key0, sig, jr, gen>>

\* A working buffer of twice the security size.
SignLenShort(size_sec) == 2 * size_sec

\* sign_len = ROUNDUP(sdata->size_sec, 16) + sdata->size_sec
SignLen(size_sec) == ROUNDUP(size_sec, SIGN_ALIGN) + size_sec

S_SignC ==
    /\ op = "sign" /\ pc = "s_signc"
    /\ \E e \in DmaResults, sgt \in BOOLEAN :
         /\ Set(IF e # "TEE_SUCCESS" THEN DmaFail(Cur, "sign_c", e)
                ELSE caam_dmaobj_init_output(Cur, "sign_c", sig.length,
                                             SignLen(in.size_sec), sgt))
         /\ ret' = e
         /\ pc' = IF e # "TEE_SUCCESS" THEN "exit" ELSE "s_signd"
    /\ UNCHANGED <<dcpVars, drv, cfg64, other, nsw, bn, op, in, key, key0, sig, jr, gen>>

\* caam_dmaobj_derive(&sign_d, &sign_c, size_sec, ROUNDUP(size_sec, 16)) and,
\* once it succeeded, the cache push of both parts.
SignDerive(s, size_sec, e) ==
    IF e # "TEE_SUCCESS" THEN DmaFail(s, "sign_d", e)
    ELSE caam_dmaobj_cache_push(caam_dmaobj_cache_push(
             caam_dmaobj_derive(s, "sign_d", "sign_c", size_sec,
                                ROUNDUP(size_sec, SIGN_ALIGN)),
             "sign_c"), "sign_d")

S_SignD ==
    /\ op = "sign" /\ pc = "s_signd"
    /\ \E e \in DmaResults :
         /\ Set(SignDerive(Cur, in.size_sec, e))
         /\ ret' = e
         /\ pc' = IF e # "TEE_SUCCESS" THEN "exit" ELSE "s_build"
    /\ UNCHANGED <<dcpVars, drv, cfg64, other, nsw, bn, op, in, key, key0, sig, jr, gen>>

\* The sign descriptor with the two signature parts exchanged.
SignDescSwapped(s, is64, l_bytes, n_bytes, msg_len) ==
    LET s1  == caam_desc_add_word(caam_desc_init(s), DESC_HEADER(0))
        s2  == caam_desc_add_word(s1, Word("PDB", "PDB_DSA_SIGN", l_bytes, n_bytes,
                                           SgtFlags(s)))
        s3  == caam_desc_add_ptr(s2, "p", s.buf["p"].paddr, is64)
        s4  == caam_desc_add_ptr(s3, "q", s.buf["q"].paddr, is64)
        s5  == caam_desc_add_ptr(s4, "g", s.buf["g"].paddr, is64)
        s6  == caam_desc_add_ptr(s5, "x", s.buf["x"].paddr, is64)
        s7  == caam_desc_add_ptr(s6, "msg", s.buf["msg"].paddr, is64)
        s8  == caam_desc_add_ptr(s7, "sign_d", s.buf["sign_d"].paddr, is64)
        s9  == caam_desc_add_ptr(s8, "sign_c", s.buf["sign_c"].paddr, is64)
        s10 == caam_desc_add_word(s9, Word("LEN", "msg", msg_len, 0, {}))
        s11 == caam_desc_add_word(s10, Word("OP", "DSA_SIGN", 0, 0, {}))
    IN  HeaderPatch(s11)

\* The sign descriptor.
SignDesc(s, is64, l_bytes, n_bytes, msg_len) ==
    LET s1  == caam_desc_add_word(caam_desc_init(s), DESC_HEADER(0))
        s2  == caam_desc_add_word(s1, Word("PDB", "PDB_DSA_SIGN", l_bytes, n_bytes,
                                           SgtFlags(s)))
        s3  == caam_desc_add_ptr(s2, "p", s.buf["p"].paddr, is64)
        s4  == caam_desc_add_ptr(s3, "q", s.buf["q"].paddr, is64)
        s5  == caam_desc_add_ptr(s4, "g", s.buf["g"].paddr, is64)
        s6  == caam_desc_add_ptr(s5, "x", s.buf["x"].paddr, is64)
        s7  == caam_desc_add_ptr(s6, "msg", s.buf["msg"].paddr, is64)
        s8  == caam_desc_add_ptr(s7, "sign_c", s.buf["sign_c"].paddr, is64)
        s9  == caam_desc_add_ptr(s8, "sign_d", s.buf["sign_d"].paddr, is64)
        s10 == caam_desc_add_word(s9, Word("LEN", "msg", msg_len, 0, {}))
        s11 == caam_desc_add_word(s10, Word("OP", "DSA_SIGN", 0, 0, {}))
    IN  HeaderPatch(s11)

S_BuildDesc ==
    /\ op = "sign" /\ pc = "s_build"
    /\ Set(SignDesc(Cur, cfg64, in.l_bytes, in.n_bytes, in.msg_len))
    /\ pc' = "s_enq"
    /\ UNCHANGED <<dcpVars, drv, cfg64, other, nsw, bn, op, in, key, key0, sig, jr, gen, ret>>

\* The message object released before the job that reads it is submitted.
S_EnqueueMsgFreed ==
    /\ op = "sign" /\ pc = "s_enq"
    /\ \E r \in JrRets, status \in JobStatuses :
         Enqueue(Free(Cur, "msg"), r, status, <<"sign_c", "sign_d">>, 1)
    /\ pc' = "s_res"
    /\ UNCHANGED <<dcpVars, drv, cfg64, other, nsw, bn, op, in, key, key0, sig, gen, ret>>

S_Enqueue ==
    /\ op = "sign" /\ pc = "s_enq"
    /\ \E r \in JrRets, status \in JobStatuses :
         Enqueue(Cur, r, status, <<"sign_c", "sign_d">>, 1)
    /\ pc' = "s_res"
    /\ UNCHANGED <<dcpVars, drv, cfg64, other, nsw, bn, op, in, key, key0, sig, gen, ret>>

\* caam_dmaobj_copy_to_orig: the working buffer is invalidated and its first
\* orig.length bytes are copied to the caller's buffer.
caam_dmaobj_copy_to_orig(s, r) == Ev(cache_operation(s, "inval", r), "hread", r)

\* sign_c.orig.length = 2 * sdata->size_sec
SignedLength(size_sec) == 2 * size_sec

\* The signature length set whatever the transport returned.
S_ResultEarlyLength ==
    /\ op = "sign" /\ pc = "s_res"
    /\ IF jr.ret = "CAAM_NO_ERROR"
       THEN /\ Set(caam_dmaobj_copy_to_orig(Cur, "sign_c"))
            /\ sig' = [length |-> SignedLength(in.size_sec),
                       copied |-> SignedLength(in.size_sec), written |-> TRUE]
            /\ ret' = "TEE_SUCCESS"
       ELSE /\ ret' = job_status_to_tee_result(jr.status)
            /\ sig' = [sig EXCEPT !.length = SignedLength(in.size_sec)]
            /\ UNCHANGED <<buf, desc, log>>
    /\ pc' = "exit"
    /\ UNCHANGED <<dcpVars, drv, cfg64, other, nsw, bn, op, in, key, key0, jr, gen>>

S_Result ==
    /\ op = "sign" /\ pc = "s_res"
    /\ IF jr.ret = "CAAM_NO_ERROR"
       THEN /\ Set(caam_dmaobj_copy_to_orig(Cur, "sign_c"))
            /\ sig' = [length |-> SignedLength(in.size_sec),
                       copied |-> SignedLength(in.size_sec), written |-> TRUE]
            /\ ret' = "TEE_SUCCESS"
       ELSE /\ ret' = job_status_to_tee_result(jr.status)
            /\ UNCHANGED <<buf, desc, log, sig>>
    /\ pc' = "exit"
    /\ UNCHANGED <<dcpVars, drv, cfg64, other, nsw, bn, op, in, key, key0, jr, gen>>

\* exit_sign without caam_dmaobj_free(&sign_c).
SignExitNoSignC(s) ==
    Free(Free(do_keypair_free(Free(s, "desc")), "msg"), "sign_d")

\* exit_sign
SignExit(s) ==
    Free(Free(Free(do_keypair_free(Free(s, "desc")), "msg"), "sign_c"), "sign_d")

S_Exit ==
    /\ op = "sign" /\ pc = "exit"
    /\ Set(SignExit(Cur))
    /\ pc' = "done"
    /\ UNCHANGED <<dcpVars, drv, cfg64, other, nsw, bn, op, in, key, key0, sig, jr, gen, ret>>

(***************************************************************************)
(* do_verify                                                               *)
(***************************************************************************)
Call_do_verify ==
    /\ op = "idle" /\ "verify" \in drv.ops
    /\ \E k \in KeyChoices({"g", "p", "q", "y"}) :
           /\ key' = k
           /\ key0' = k
    /\ \E S \in SizeSecs, ml \in MsgLens :
           /\ in' = [l_bytes |-> LBytes, n_bytes |-> NBytes, size_sec |-> S,
                     msg_len |-> ml, sig_len |-> 2 * S]
           /\ sig' = [NoSig EXCEPT !.length = 2 * S]
    /\ op' = "verify" /\ pc' = "v_desc"
    /\ ret' = "TEE_ERROR_GENERIC"
    /\ UNCHANGED <<dcpVars, drv, cfg64, other, nsw, bn, buf, desc, jr, gen, log>>

V_AllocDesc ==
    /\ op = "verify" /\ pc = "v_desc"
    /\ \E ok \in BOOLEAN :
         IF ok
         THEN /\ Set(Calloc(Cur, "desc",
                     IF cfg64 THEN MAX_DESC_VERIFY_64 ELSE MAX_DESC_VERIFY_32))
              /\ pc' = "v_key"
              /\ UNCHANGED ret
         ELSE Fail(Cur, "desc", "TEE_ERROR_OUT_OF_MEMORY")
    /\ UNCHANGED <<dcpVars, drv, cfg64, other, nsw, bn, op, in, key, key0, sig, jr, gen>>

V_KeyConv ==
    /\ op = "verify" /\ pc = "v_key"
    /\ \E failAt \in {"none", "g", "p", "q", "y"} :
         LET r == do_keypub_conv(Cur, key, in.l_bytes, in.n_bytes, failAt)
         IN  /\ Set(r.s)
             /\ IF r.rc # "CAAM_NO_ERROR"
                THEN ret' = "TEE_ERROR_OUT_OF_MEMORY" /\ pc' = "exit"
                ELSE UNCHANGED ret /\ pc' = "v_msg"
    /\ UNCHANGED <<dcpVars, drv, cfg64, other, nsw, bn, op, in, key, key0, sig, jr, gen>>

V_Msg ==
    /\ op = "verify" /\ pc = "v_msg"
    /\ \E e \in DmaResults, sgt \in BOOLEAN :
         /\ Set(MsgInput(Cur, in.msg_len, e, sgt))
         /\ ret' = e
         /\ pc' = IF e # "TEE_SUCCESS" THEN "exit" ELSE "v_signc"
    /\ UNCHANGED <<dcpVars, drv, cfg64, other, nsw, bn, op, in, key, key0, sig, jr, gen>>

V_SignC ==
    /\ op = "verify" /\ pc = "v_signc"
    /\ \E e \in DmaResults, sgt \in BOOLEAN :
         /\ Set(IF e # "TEE_SUCCESS" THEN DmaFail(Cur, "sign_c", e)
                ELSE caam_dmaobj_init_input(Cur, "sign_c", sig.length, sgt))
         /\ ret' = e
         /\ pc' = IF e # "TEE_SUCCESS" THEN "exit" ELSE "v_signd"
    /\ UNCHANGED <<dcpVars, drv, cfg64, other, nsw, bn, op, in, key, key0, sig, jr, gen>>

\* caam_dmaobj_derive(&sign_d, &sign_c, size_sec, size_sec) and, once it
\* succeeded, the cache push of both parts.
VerifyDerive(s, size_sec, e) ==
    IF e # "TEE_SUCCESS" THEN DmaFail(s, "sign_d", e)
    ELSE caam_dmaobj_cache_push(caam_dmaobj_cache_push(
             caam_dmaobj_derive(s, "sign_d", "sign_c", size_sec, size_sec),
             "sign_c"), "sign_d")

V_SignD ==
    /\ op = "verify" /\ pc = "v_signd"
    /\ \E e \in DmaResults :
         /\ Set(VerifyDerive(Cur, in.size_sec, e))
         /\ ret' = e
         /\ pc' = IF e # "TEE_SUCCESS" THEN "exit" ELSE "v_tmp"
    /\ UNCHANGED <<dcpVars, drv, cfg64, other, nsw, bn, op, in, key, key0, sig, jr, gen>>

V_AllocTmp ==
    /\ op = "verify" /\ pc = "v_tmp"
    /\ \E ok \in BOOLEAN :
         IF ok
         THEN /\ Set(Alloc(Cur, "tmp", in.l_bytes))
              /\ pc' = "v_build"
              /\ UNCHANGED ret
         ELSE Fail(Cur, "tmp", "TEE_ERROR_OUT_OF_MEMORY")
    /\ UNCHANGED <<dcpVars, drv, cfg64, other, nsw, bn, op, in, key, key0, sig, jr, gen>>

\* The verify descriptor.
VerifyDesc(s, is64, l_bytes, n_bytes, msg_len) ==
    LET s1  == caam_desc_add_word(caam_desc_init(s), DESC_HEADER(0))
        s2  == caam_desc_add_word(s1, Word("PDB", "PDB_DSA_VERIF", l_bytes, n_bytes,
                                           SgtFlags(s)))
        s3  == caam_desc_add_ptr(s2, "p", s.buf["p"].paddr, is64)
        s4  == caam_desc_add_ptr(s3, "q", s.buf["q"].paddr, is64)
        s5  == caam_desc_add_ptr(s4, "g", s.buf["g"].paddr, is64)
        s6  == caam_desc_add_ptr(s5, "y", s.buf["y"].paddr, is64)
        s7  == caam_desc_add_ptr(s6, "msg", s.buf["msg"].paddr, is64)
        s8  == caam_desc_add_ptr(s7, "sign_c", s.buf["sign_c"].paddr, is64)
        s9  == caam_desc_add_ptr(s8, "sign_d", s.buf["sign_d"].paddr, is64)
        s10 == caam_desc_add_ptr(s9, "tmp", s.buf["tmp"].paddr, is64)
        s11 == caam_desc_add_word(s10, Word("LEN", "msg", msg_len, 0, {}))
        s12 == caam_desc_add_word(s11, Word("OP", "DSA_VERIFY", 0, 0, {}))
    IN  HeaderPatch(s12)

V_BuildDesc ==
    /\ op = "verify" /\ pc = "v_build"
    /\ Set(VerifyDesc(Cur, cfg64, in.l_bytes, in.n_bytes, in.msg_len))
    /\ pc' = "v_enq"
    /\ UNCHANGED <<dcpVars, drv, cfg64, other, nsw, bn, op, in, key, key0, sig, jr, gen, ret>>

\* cache_operation(TEE_CACHEFLUSH, tmp.data, tmp.length); caam_jr_enqueue(..)
V_Enqueue ==
    /\ op = "verify" /\ pc = "v_enq"
    /\ \E r \in JrRets, status \in JobStatuses :
         Enqueue(cache_operation(Cur, "flush", "tmp"), r, status, <<"tmp">>, 1)
    /\ pc' = "v_res"
    /\ UNCHANGED <<dcpVars, drv, cfg64, other, nsw, bn, op, in, key, key0, sig, gen, ret>>

\* Every result of the transport other than success taken as a device failure.
VerifyResultNoInvalid(r, status) ==
    IF r # "CAAM_NO_ERROR" THEN job_status_to_tee_result(status)
    ELSE "TEE_SUCCESS"

\* The classification without the test of the status word.
VerifyResultAnyStatus(r, status) ==
    IF r = "CAAM_JOB_STATUS" THEN "TEE_ERROR_SIGNATURE_INVALID"
    ELSE IF r # "CAAM_NO_ERROR" THEN job_status_to_tee_result(status)
    ELSE "TEE_SUCCESS"

\* The classification that follows caam_jr_enqueue in do_verify.
VerifyResult(r, status) ==
    IF r = "CAAM_JOB_STATUS" /\ status = 0 THEN "TEE_ERROR_SIGNATURE_INVALID"
    ELSE IF r # "CAAM_NO_ERROR" THEN job_status_to_tee_result(status)
    ELSE "TEE_SUCCESS"

V_Result ==
    /\ op = "verify" /\ pc = "v_res"
    /\ ret' = VerifyResult(jr.ret, jr.status)
    /\ pc' = "exit"
    /\ UNCHANGED <<dcpVars, drv, cfg64, other, nsw, bn, op, in, key, key0, sig, buf, desc, jr, gen, log>>

\* exit_verify
VerifyExit(s) ==
    Free(Free(Free(Free(do_keypair_free(Free(s, "desc")), "tmp"), "msg"),
         "sign_c"), "sign_d")

V_Exit ==
    /\ op = "verify" /\ pc = "exit"
    /\ Set(VerifyExit(Cur))
    /\ pc' = "done"
    /\ UNCHANGED <<dcpVars, drv, cfg64, other, nsw, bn, op, in, key, key0, sig, jr, gen, ret>>

(***************************************************************************)
(* do_allocate_keypair, do_allocate_publickey.  A local state a is         *)
(* [bn, log]; a component of bn is "null", "live" or "freed".              *)
(***************************************************************************)
\* crypto_bignum_allocate: a bignum, or NULL.
crypto_bignum_allocate(a, r, ok) ==
    IF ok THEN [bn |-> [a.bn EXCEPT ![r] = "live"], log |-> Append(a.log, <<"bn_alloc", r>>)]
    ELSE [a EXCEPT !.log = Append(@, <<"bn_allocfail", r>>)]

\* crypto_bignum_free: nothing to do on NULL.
crypto_bignum_free(a, r) ==
    IF a.bn[r] = "null" THEN a
    ELSE [bn |-> [a.bn EXCEPT ![r] = "freed"], log |-> Append(a.log, <<"bn_free", r>>)]

\* The components are allocated in order up to the first failure.
RECURSIVE AllocateInOrder(_, _, _)
AllocateInOrder(a, order, failAt) ==
    IF order = <<>> THEN a
    ELSE LET a1 == crypto_bignum_allocate(a, Head(order), Head(order) # failAt)
         IN  IF Head(order) = failAt THEN a1
             ELSE AllocateInOrder(a1, Tail(order), failAt)

\* err_alloc_keypair without the free of the private key.
KeypairUnwindNoX(a) ==
    crypto_bignum_free(crypto_bignum_free(crypto_bignum_free(a, "g"), "p"), "q")

\* err_alloc_keypair
KeypairUnwind(a) ==
    crypto_bignum_free(crypto_bignum_free(crypto_bignum_free(
        crypto_bignum_free(a, "g"), "p"), "q"), "x")

\* err_alloc_pubkey
PublicKeyUnwind(a) ==
    crypto_bignum_free(crypto_bignum_free(crypto_bignum_free(a, "g"), "p"), "q")

KeypairOrder == <<"g", "p", "q", "x", "y">>
PublicKeyOrder == <<"g", "p", "q", "y">>

do_allocate_keypair ==
    /\ op = "idle" /\ "alloc_keypair" \in drv.ops
    /\ \E failAt \in {"none", "g", "p", "q", "x", "y"} :
         LET a0 == [bn |-> NoBignums, log |-> <<>>]
             a1 == AllocateInOrder(a0, KeypairOrder, failAt)
             a2 == IF failAt = "none" THEN a1 ELSE KeypairUnwind(a1)
         IN  /\ bn' = a2.bn /\ log' = a2.log
             /\ ret' = IF failAt = "none" THEN "TEE_SUCCESS"
                       ELSE "TEE_ERROR_OUT_OF_MEMORY"
    /\ op' = "alloc_keypair" /\ pc' = "done"
    /\ UNCHANGED <<dcpVars, drv, cfg64, other, nsw, in, key, key0, sig, buf, desc, jr, gen>>

do_allocate_publickey ==
    /\ op = "idle" /\ "alloc_publickey" \in drv.ops
    /\ \E failAt \in {"none", "g", "p", "q", "y"} :
         LET a0 == [bn |-> NoBignums, log |-> <<>>]
             a1 == AllocateInOrder(a0, PublicKeyOrder, failAt)
             a2 == IF failAt = "none" THEN a1 ELSE PublicKeyUnwind(a1)
         IN  /\ bn' = a2.bn /\ log' = a2.log
             /\ ret' = IF failAt = "none" THEN "TEE_SUCCESS"
                       ELSE "TEE_ERROR_OUT_OF_MEMORY"
    /\ op' = "alloc_publickey" /\ pc' = "done"
    /\ UNCHANGED <<dcpVars, drv, cfg64, other, nsw, in, key, key0, sig, buf, desc, jr, gen>>

(***************************************************************************)
(* The call returns: its locals are gone.                                  *)
(***************************************************************************)
Return ==
    /\ op # "idle" /\ pc = "done"
    /\ op' = "idle" /\ pc' = "idle"
    /\ in' = NoIn /\ key' = NoKey /\ key0' = NoKey /\ sig' = NoSig
    /\ buf' = [r \in BufNames |-> NoBuf]
    /\ desc' = <<>> /\ jr' = NoJob /\ gen' = 0 /\ log' = <<>>
    /\ bn' = NoBignums
    /\ ret' = "TEE_ERROR_GENERIC"
    /\ UNCHANGED <<dcpVars, drv, cfg64, other, nsw>>

(***************************************************************************)
(* Two threads.  Every variable of an orchestrator is an automatic         *)
(* variable of the call or belongs to the caller's own objects, so a call  *)
(* in flight on another thread is the record of its locals; the scheduler  *)
(* may switch between the two at any step.                                 *)
(***************************************************************************)
\* The locals of the running call and its caller's objects.
Locals ==
    [op |-> op, pc |-> pc, in |-> in, key |-> key, key0 |-> key0, sig |-> sig,
     buf |-> buf, desc |-> desc, jr |-> jr, gen |-> gen, log |-> log, bn |-> bn,
     ret |-> ret]

\* A job context kept in static storage: both threads use the same one.
RestoreStaticJob(t) ==
    /\ op' = t.op /\ pc' = t.pc /\ in' = t.in /\ key' = t.key /\ key0' = t.key0
    /\ sig' = t.sig /\ buf' = t.buf /\ desc' = t.desc /\ jr' = jr
    /\ gen' = t.gen /\ log' = t.log /\ bn' = t.bn /\ ret' = t.ret

\* The thread of call t runs on: its locals are the current ones.
Restore(t) ==
    /\ op' = t.op /\ pc' = t.pc /\ in' = t.in /\ key' = t.key /\ key0' = t.key0
    /\ sig' = t.sig /\ buf' = t.buf /\ desc' = t.desc /\ jr' = t.jr
    /\ gen' = t.gen /\ log' = t.log /\ bn' = t.bn /\ ret' = t.ret

\* The scheduler switches threads at most MaxSwitch times.
MaxSwitch == 2

Switch ==
    /\ nsw < MaxSwitch
    /\ nsw' = nsw + 1
    /\ other' = Locals
    /\ Restore(other)
    /\ UNCHANGED <<dcpVars, drv, cfg64>>

(***************************************************************************)
(* DCP utilities: dcp_alloc_memalign, dcp_free_memalign,                   *)
(* dcp_calloc_align_buf, dcp_free.  Addresses and sizes are numbers below  *)
(* 2^SizeBits; 0 is NULL.  The heap is the set of areas [addr, size] that  *)
(* calloc returned and free has not released.                              *)
(***************************************************************************)
MaxDminLine == 4    \* largest DminLine: cache lines of 4, 8, .., 64 bytes

CTR_WORD_SIZE == 4

\* sizeof(void *) and sizeof(size_t) of the build.
SizeofPtr == IF cfg64 THEN 8 ELSE 4

\* ROUNDUP(sizeof(struct mem_hdr), sizeof(void *)), the struct packed.
MEM_HDR_SIZE == ROUNDUP(SizeofPtr + SizeofPtr, SizeofPtr)

\* Alignment of every address calloc returns.
MallocAlign == 2 * SizeofPtr

\* CTR_WORD_SIZE << DminLine
read_cacheline_size == CTR_WORD_SIZE * Pow2(ctr)

ADD_OVERFLOW(a, b) == a + b > SIZE_MAX

\* The size passed to calloc, or ovf when dcp_alloc_memalign gives up.
AllocSize(size, cl) ==
    IF ADD_OVERFLOW(size, MEM_HDR_SIZE) THEN [ovf |-> TRUE, n |-> 0]
    ELSE LET a1 == size + MEM_HDR_SIZE
         IN  IF size = cl /\ ADD_OVERFLOW(a1, cl) THEN [ovf |-> TRUE, n |-> 0]
             ELSE LET a2 == IF size = cl THEN a1 + cl ELSE a1
                      ru == ROUNDUP(a2, cl)
                  IN  IF ADD_OVERFLOW(cl, ru) THEN [ovf |-> TRUE, n |-> 0]
                      ELSE [ovf |-> FALSE, n |-> cl + ru]

\* What calloc(1, n) may return: NULL, or the start of a free area of n
\* bytes inside the address space, aligned as malloc aligns; one base per
\* residue modulo the cache line.
Bases(n, cl) ==
    {p \in 1..(SIZE_MAX + 1 - n) :
        /\ p % MallocAlign = 0
        /\ p <= (IF cl > MallocAlign THEN cl ELSE MallocAlign)
        /\ \A a \in heap : p + n <= a.addr \/ a.addr + a.size <= p}

\* OF_MEM_HDR(p)
OF_MEM_HDR(p) == p - MEM_HDR_SIZE

\* dcp_alloc_memalign(size) when calloc returns ptr: the returned address
\* and the heap and the headers after it.
dcp_alloc_memalign(size, ptr) ==
    LET cl == read_cacheline_size
        a == AllocSize(size, cl)
        r == ROUNDUP(ptr + MEM_HDR_SIZE, cl)
    IN  IF a.ovf \/ ptr = 0 THEN [r |-> 0, heap |-> heap, hdrs |-> hdrs]
        ELSE [r |-> r,
              heap |-> heap \cup {[addr |-> ptr, size |-> a.n]},
              hdrs |-> hdrs \cup {[at |-> OF_MEM_HDR(r), addr |-> ptr, size |-> a.n]}]

\* free(hdr) in place of free(hdr->addr).
dcp_free_memalign_hdr(h, m, ptr) ==
    IF ptr = 0 THEN [heap |-> h, hdrs |-> m]
    ELSE LET hdr == CHOOSE x \in m : x.at = OF_MEM_HDR(ptr)
         IN  [heap |-> {a \in h : a.addr # hdr.at},
              hdrs |-> m \ {hdr}]

\* dcp_free_memalign(ptr): free(hdr->addr) of the header in front of ptr.
dcp_free_memalign(h, m, ptr) ==
    IF ptr = 0 THEN [heap |-> h, hdrs |-> m]
    ELSE LET hdr == CHOOSE x \in m : x.at = OF_MEM_HDR(ptr)
         IN  [heap |-> {a \in h : a.addr # hdr.addr},
              hdrs |-> m \ {hdr}]

dcp_free(h, m, ptr) == dcp_free_memalign(h, m, ptr)

NoAlignBuf == [data |-> 0, paddr |-> 0, size |-> 0]

NoDcp == [pc |-> "idle", fn |-> "none", buf_null |-> FALSE, size |-> 0,
          ptr |-> 0, alloc_size |-> 0, ret |-> "TEE_SUCCESS"]

NoShift == [pc |-> "idle", n |-> 0, i |-> 0, msb |-> 0, mem |-> <<>>, mem0 |-> <<>>]

DcpIdle == dcp.pc = "idle" /\ lsb.pc = "idle"

\* dcp_calloc_align_buf(buf, size) is called; a NULL buf is refused at once.
Call_dcp_calloc_align_buf ==
    /\ DcpIdle /\ heap = {}
    /\ \E null \in BOOLEAN, size \in 0..SIZE_MAX :
           dcp' = [NoDcp EXCEPT !.fn = "calloc", !.buf_null = null, !.size = size,
                                !.pc = IF null THEN "done" ELSE "alloc",
                                !.ret = IF null THEN "TEE_ERROR_BAD_PARAMETERS"
                                        ELSE "TEE_SUCCESS"]
    /\ abuf' = NoAlignBuf
    /\ UNCHANGED <<ctr, heap, hdrs, lsb>>
    /\ UNCHANGED <<drv, cfg64, op, pc, in, key, key0, sig, buf, desc, jr, gen, log, bn, ret,
                   other, nsw>>

\* buf->data = dcp_alloc_memalign(size); if (!buf->data) return OUT_OF_MEMORY
D_AllocMemalign ==
    /\ dcp.pc = "alloc"
    /\ LET a == AllocSize(dcp.size, read_cacheline_size)
       IN  \E ptr \in {0} \cup (IF a.ovf THEN {} ELSE Bases(a.n, read_cacheline_size)) :
             LET m == dcp_alloc_memalign(dcp.size, ptr)
             IN  /\ heap' = m.heap
                 /\ hdrs' = m.hdrs
                 /\ abuf' = [abuf EXCEPT !.data = m.r]
                 /\ dcp' = [dcp EXCEPT !.ptr = IF m.r = 0 THEN 0 ELSE ptr,
                                       !.alloc_size = IF m.r = 0 THEN 0 ELSE a.n,
                                       !.pc = IF m.r = 0 THEN "done" ELSE "phys",
                                       !.ret = IF m.r = 0 THEN "TEE_ERROR_OUT_OF_MEMORY"
                                               ELSE @]
    /\ UNCHANGED <<ctr, lsb>>
    /\ UNCHANGED <<drv, cfg64, op, pc, in, key, key0, sig, buf, desc, jr, gen, log, bn, ret,
                   other, nsw>>

\* buf->paddr = virt_to_phys(buf->data); a zero address frees the buffer.
D_VirtToPhys ==
    /\ dcp.pc = "phys"
    /\ \E pa \in {0, abuf.data} :
         IF pa = 0
         THEN LET f == dcp_free(heap, hdrs, abuf.data)
              IN  /\ heap' = f.heap /\ hdrs' = f.hdrs
                  /\ abuf' = [abuf EXCEPT !.paddr = 0]
                  /\ dcp' = [dcp EXCEPT !.pc = "done", !.ret = "TEE_ERROR_OUT_OF_MEMORY"]
         ELSE /\ abuf' = [abuf EXCEPT !.paddr = pa, !.size = dcp.size]
              /\ dcp' = [dcp EXCEPT !.pc = "done", !.ret = "TEE_SUCCESS"]
              /\ UNCHANGED <<heap, hdrs>>
    /\ UNCHANGED <<ctr, lsb>>
    /\ UNCHANGED <<drv, cfg64, op, pc, in, key, key0, sig, buf, desc, jr, gen, log, bn, ret,
                   other, nsw>>

\* dcp_free(ptr) called with NULL or with the data of a live align_buf.
Call_dcp_free ==
    /\ DcpIdle
    /\ \E ptr \in {0} \cup {abuf.data} :
         /\ ptr # 0 => \E x \in hdrs : x.at = OF_MEM_HDR(ptr)
         /\ LET f == dcp_free(heap, hdrs, ptr)
            IN  heap' = f.heap /\ hdrs' = f.hdrs
         /\ dcp' = [NoDcp EXCEPT !.fn = "free", !.pc = "done", !.ptr = ptr]
    /\ UNCHANGED <<ctr, abuf, lsb>>
    /\ UNCHANGED <<drv, cfg64, op, pc, in, key, key0, sig, buf, desc, jr, gen, log, bn, ret,
                   other, nsw>>

\* The call returns to its caller.
D_Return ==
    /\ dcp.pc = "done"
    /\ dcp' = NoDcp
    /\ UNCHANGED <<ctr, heap, hdrs, abuf, lsb>>
    /\ UNCHANGED <<drv, cfg64, op, pc, in, key, key0, sig, buf, desc, jr, gen, log, bn, ret,
                   other, nsw>>

(***************************************************************************)
(* left_shift_buffer(input, result, buffer_size).  The two buffers lie     *)
(* one after the other in mem: input at offsets 1..n, result at n+1..2n.   *)
(***************************************************************************)
MaxBufferSize == 2

ByteVals == {0, 1, 127, 128, 129, 255}

BIT(n) == Pow2(n)

\* The byte of input and of result at C index j.
InputAt(l, j) == j + 1
ResultAt(l, j) == l.n + j + 1

Call_left_shift_buffer ==
    /\ DcpIdle
    /\ \E n \in 0..MaxBufferSize :
         \E input \in [1..n -> ByteVals], fill \in {0, 255} :
             LET m == input \o [k \in 1..n |-> fill]
             IN  lsb' = [pc |-> "loop", n |-> n, i |-> 0, msb |-> 0, mem |-> m, mem0 |-> m]
    /\ UNCHANGED <<ctr, heap, hdrs, abuf, dcp>>
    /\ UNCHANGED <<drv, cfg64, op, pc, in, key, key0, sig, buf, desc, jr, gen, log, bn, ret,
                   other, nsw>>

\* The carry taken from the byte just written instead of the input byte.
ShiftByteCarryFromResult(l) ==
    LET j == l.n - 1 - l.i
        b == l.mem[InputAt(l, j)]
        w == ((b * 2) % 256) + (IF l.msb # 0 THEN l.msb ELSE 0)
    IN  [l EXCEPT !.mem[ResultAt(l, j)] = w,
                  !.msb = (w \div BIT(7)) % 2,
                  !.i = l.i + 1]

\* One pass of the loop body: the byte shifted, the carry of the previous
\* byte put in, the most significant bit of the input byte backed up.
ShiftByte(l) ==
    LET j == l.n - 1 - l.i
        b == l.mem[InputAt(l, j)]
        w == ((b * 2) % 256) + (IF l.msb # 0 THEN l.msb ELSE 0)
    IN  [l EXCEPT !.mem[ResultAt(l, j)] = w,
                  !.msb = (b \div BIT(7)) % 2,
                  !.i = l.i + 1]

L_Step ==
    /\ lsb.pc = "loop" /\ lsb.i < lsb.n
    /\ lsb' = ShiftByte(lsb)
    /\ UNCHANGED <<ctr, heap, hdrs, abuf, dcp>>
    /\ UNCHANGED <<drv, cfg64, op, pc, in, key, key0, sig, buf, desc, jr, gen, log, bn, ret,
                   other, nsw>>

L_Exit ==
    /\ lsb.pc = "loop" /\ lsb.i >= lsb.n
    /\ lsb' = [lsb EXCEPT !.pc = "done"]
    /\ UNCHANGED <<ctr, heap, hdrs, abuf, dcp>>
    /\ UNCHANGED <<drv, cfg64, op, pc, in, key, key0, sig, buf, desc, jr, gen, log, bn, ret,
                   other, nsw>>

L_Return ==
    /\ lsb.pc = "done"
    /\ lsb' = NoShift
    /\ UNCHANGED <<ctr, heap, hdrs, abuf, dcp>>
    /\ UNCHANGED <<drv, cfg64, op, pc, in, key, key0, sig, buf, desc, jr, gen, log, bn, ret,
                   other, nsw>>

(***************************************************************************)
(* Properties.                                                             *)
(***************************************************************************)
Count(kind, r) == Cardinality({i \in 1..Len(log) : log[i] = <<kind, r>>})

Submitted == Count("enqueue", "job") > 0

AllReleased ==
    \A r \in BufNames : buf[r].st # "live" /\ Count("alloc", r) = Count("free", r)

\* C1: when do_gen_keypair, do_sign or do_verify returns, on success and
\* after a failure at any point, the descriptor and every buffer allocated
\* during the call has been released exactly once, and nothing is released
\* that was not allocated.
C1_ReleasedExactlyOnce ==
    /\ \A r \in BufNames : Count("free", r) <= Count("alloc", r) /\ Count("alloc", r) <= 1
    /\ pc = "done" => AllReleased

\* A verify call that failed at the scratch allocation, after everything else.
C1_Witness ==
    /\ op = "verify" /\ pc = "done" /\ ret = "TEE_ERROR_OUT_OF_MEMORY"
    /\ Count("allocfail", "tmp") = 1
    /\ \A r \in {"desc", "g", "p", "q", "y", "msg", "sign_c", "sign_d"} :
           Count("alloc", r) = 1 /\ Count("free", r) = 1

SigInvalidCase == jr.ret = "CAAM_JOB_STATUS" /\ jr.status = 0

\* C2: a do_verify call whose job ran and found the signature not to verify
\* (job status reported, status word 0) returns TEE_ERROR_SIGNATURE_INVALID;
\* a call whose transport reports an error returns the mapped device failure
\* and never TEE_ERROR_SIGNATURE_INVALID.
C2_VerifyOutcomeSeparation ==
    (op = "verify" /\ pc \in {"exit", "done"} /\ jr.n > 0) =>
        /\ SigInvalidCase => ret = "TEE_ERROR_SIGNATURE_INVALID"
        /\ (jr.ret # "CAAM_NO_ERROR" /\ ~SigInvalidCase) =>
               /\ ret = job_status_to_tee_result(jr.status)
               /\ ret \notin {"TEE_ERROR_SIGNATURE_INVALID", "TEE_SUCCESS"}

C2_Witness ==
    /\ op = "verify" /\ pc = "done" /\ jr.n = 1
    /\ SigInvalidCase /\ ret = "TEE_ERROR_SIGNATURE_INVALID"

SignAllocPoints == {"desc", "g", "p", "q", "x", "msg", "sign_c", "sign_d"}

\* C3: a do_sign call in which an allocation failed, at any of its
\* allocation points, returns TEE_ERROR_OUT_OF_MEMORY with every buffer
\* allocated before freed and no job submitted.
C3_SignAllocFailure ==
    (op = "sign" /\ pc = "done" /\ \E r \in SignAllocPoints : Count("allocfail", r) > 0) =>
        /\ ret = "TEE_ERROR_OUT_OF_MEMORY"
        /\ AllReleased
        /\ jr.n = 0 /\ ~Submitted

\* The last allocation point failed: the seven before it were allocated and freed.
C3_Witness ==
    /\ op = "sign" /\ pc = "done" /\ Count("allocfail", "sign_d") = 1
    /\ ret = "TEE_ERROR_OUT_OF_MEMORY"
    /\ \A r \in SignAllocPoints \ {"sign_d"} : Count("free", r) = 1

Fits(r) == crypto_bignum_num_bytes(key0[r]) <= Width(r)

Encoded(r) ==
    /\ Len(buf[r].data) = Width(r)
    /\ crypto_bignum_bin2bn(buf[r].data) = key0[r]

DomainParams == {"p", "q", "g"}

\* C4: once get_keypair_domain_params has its three buffers, if one of the
\* caller's p, q, g has zero byte length the generator is called exactly
\* once, for all three together; if none has, the generator is not called
\* and the three buffers are encoded from the caller's values.
C4_DomainParamPolicy ==
    (op = "gen" /\ \A r \in DomainParams : Count("alloc", r) = 1) =>
        IF \E r \in DomainParams : crypto_bignum_num_bytes(key0[r]) = 0
        THEN /\ gen = 1 /\ Count("primegen", "job") = 1
             /\ \A r \in DomainParams : Count("hwrite", r) = 0
             /\ \/ \A r \in DomainParams : Count("dwrite", r) = 1
                \/ \A r \in DomainParams : Count("dwrite", r) = 0
        ELSE /\ gen = 0 /\ Count("primegen", "job") = 0
             /\ \A r \in DomainParams :
                    /\ Count("hwrite", r) = 1 /\ Count("dwrite", r) = 0
                    /\ Fits(r) => Encoded(r)
             /\ \A r \in DomainParams : key[r] = key0[r]

\* Only p is absent, and the generator ran once and wrote all three.
C4_Witness ==
    /\ op = "gen" /\ pc = "g_build"
    /\ key0.p = 0 /\ key0.q # 0 /\ key0.g # 0
    /\ gen = 1 /\ \A r \in DomainParams : Count("dwrite", r) = 1

LastIdx(kind, r) ==
    LET S == {i \in 1..Len(log) : log[i] = <<kind, r>>}
    IN  IF S = {} THEN 0 ELSE CHOOSE i \in S : \A j \in S : j <= i

\* C5: in every descriptor submitted by the three operations, the length in
\* the header word is the number of words of the descriptor, header
\* included; the header is patched once, after the last word was appended.
C5_HeaderLength ==
    (op # "idle" /\ (Submitted \/ pc \in {"g_enq", "s_enq", "v_enq"})) =>
        /\ desc[1].k = "HDR"
        /\ desc[1].a = Len(desc)
        /\ desc[1].a = Count("desc_add", "desc")
        /\ Count("desc_hdr", "desc") = 1
        /\ LastIdx("desc_hdr", "desc") > LastIdx("desc_add", "desc")

\* The verify descriptor of a 64-bit build: 4 words and 8 pointers of 2 words.
C5_Witness ==
    /\ op = "verify" /\ cfg64 /\ Submitted
    /\ Len(desc) = 20 /\ desc[1].a = 20

FieldOf(w) ==
    CASE w.k = "HDR" -> "header"
      [] w.k = "PDB" -> "size-flags"
      [] w.k \in {"PTR", "PTR_HI", "PTR_LO"} -> w.v
      [] w.k = "LEN" -> "msg-len"
      [] w.k = "OP" -> "opcode"
      [] OTHER -> "?"

NotLow(w) == w.k # "PTR_LO"

Fields(d) == LET f == SelectSeq(d, NotLow) IN [i \in 1..Len(f) |-> FieldOf(f[i])]

FieldOrder ==
    CASE op = "gen" ->
           <<"header", "size-flags", "p", "q", "g", "x", "y", "opcode">>
      [] op = "sign" ->
           <<"header", "size-flags", "p", "q", "g", "x", "msg", "sign_c", "sign_d",
             "msg-len", "opcode">>
      [] op = "verify" ->
           <<"header", "size-flags", "p", "q", "g", "y", "msg", "sign_c", "sign_d",
             "tmp", "msg-len", "opcode">>
      [] OTHER -> <<>>

Opcode ==
    CASE op = "gen" -> "PK_KEYPAIR_GEN" [] op = "sign" -> "DSA_SIGN"
      [] op = "verify" -> "DSA_VERIFY" [] OTHER -> ""

AtSubmission == op # "idle" /\ pc \in {"g_enq", "g_res", "s_enq", "s_res", "v_enq", "v_res"}

\* C6: the words after the header of a submitted descriptor are in the
\* operation's field order (Generate, Sign, Verify), and every pointer slot
\* holds the address of the buffer of that name, allocated in this call.
C6_FieldOrder ==
    AtSubmission =>
        /\ Fields(desc) = FieldOrder
        /\ \A i \in 1..Len(desc) :
             LET w == desc[i]
             IN  /\ w.k \in {"PTR", "PTR_LO"} =>
                        /\ buf[w.v].st = "live" /\ Count("alloc", w.v) = 1
                        /\ w.a = buf[w.v].paddr /\ w.a # 0
                        /\ \A r \in BufNames \ {w.v} :
                               buf[r].st = "live" => buf[r].paddr # w.a
                 /\ w.k = "PTR_HI" =>
                        /\ w.a = 0
                        /\ i < Len(desc) /\ desc[i + 1].k = "PTR_LO" /\ desc[i + 1].v = w.v
                 /\ w.k = "PTR_LO" => i > 1 /\ desc[i - 1].k = "PTR_HI"
                 /\ w.k = "PTR" => ~cfg64
                 /\ w.k = "PDB" =>
                        /\ w.a = in.l_bytes /\ w.b = in.n_bytes
                        /\ w.f = {r \in DmaNames : buf[r].sgt}
                 /\ w.k = "LEN" => w.a = in.msg_len
                 /\ w.k = "OP" => w.v = Opcode

\* A sign descriptor at submission, the message in an SGT.
C6_Witness ==
    /\ op = "sign" /\ pc = "s_res" /\ ~cfg64 /\ buf["msg"].sgt
    /\ desc[8].v = "sign_c" /\ desc[9].v = "sign_d"
    /\ desc[9].a = buf["sign_c"].paddr + in.size_sec

\* The least multiple of SIGN_ALIGN that is at least S.
Rounded(S) ==
    CHOOSE m \in S..(S + SIGN_ALIGN) : m % SIGN_ALIGN = 0 /\ m - S < SIGN_ALIGN

\* C7: for every security size S, do_sign asks for a signature working
\* buffer of roundup(S,16) + S bytes; its first part is S bytes at offset 0,
\* its second part roundup(S,16) bytes at offset S, both inside the buffer;
\* after a successful sign the reported signature length is 2*S.
C7_SignatureSizing ==
    op = "sign" =>
        LET S == in.size_sec
        IN  /\ buf["sign_c"].st = "live" =>
                   /\ buf["sign_c"].len >= Rounded(S) + S
                   /\ in.sig_len <= Rounded(S) + S => buf["sign_c"].len = Rounded(S) + S
            /\ buf["sign_d"].st = "live" =>
                   /\ buf["sign_d"].off = S /\ buf["sign_d"].len = Rounded(S)
                   /\ buf["sign_d"].off + buf["sign_d"].len <= buf["sign_c"].len
                   /\ buf["sign_d"].paddr = buf["sign_c"].paddr + S
            /\ (pc \in {"exit", "done"} /\ ret = "TEE_SUCCESS") => sig.length = 2 * S

\* A successful sign with a security size that is no multiple of 16.
C7_Witness ==
    /\ op = "sign" /\ pc = "done" /\ ret = "TEE_SUCCESS"
    /\ in.size_sec = SIGN_ALIGN + 4 /\ in.sig_len = in.size_sec
    /\ sig.length = 2 * in.size_sec
    /\ buf["sign_c"].len = 2 * SIGN_ALIGN + in.size_sec

DeviceReads ==
    CASE op = "gen" -> {"p", "q", "g"}
      [] op = "sign" -> {"p", "q", "g", "x", "msg"}
      [] op = "verify" -> {"p", "q", "g", "y", "msg", "sign_c", "sign_d"}
      [] OTHER -> {}

HostWrite(e, r) == e = <<"hwrite", r>> \/ e = <<"zero", r>>
Push(e, r) == e = <<"clean", r>> \/ e = <<"flush", r>>

C9_GenOutputOrder ==
    op = "gen" =>
        \A r \in {"x", "y"} :
            /\ Submitted =>
                   /\ 0 < LastIdx("alloc", r)
                   /\ LastIdx("alloc", r) < LastIdx("zero", r)
                   /\ LastIdx("zero", r) < LastIdx("flush", r)
                   /\ LastIdx("flush", r) < LastIdx("enqueue", "job")
                   /\ Count("hwrite", r) = 0 /\ Count("zero", r) = 1
            /\ \A i \in 1..Len(log) : log[i] = <<"hread", r>> =>
                   /\ jr.n = 1 /\ jr.ret = "CAAM_NO_ERROR"
                   /\ LastIdx("enqueue", "job") < LastIdx("complete", "job")
                   /\ LastIdx("complete", "job") < LastIdx("inval", r)
                   /\ LastIdx("inval", r) < i
                   /\ Count("inval", r) = 1

\* A successful key generation: both x and y were decoded.
C9_Witness ==
    /\ op = "gen" /\ pc = "done" /\ ret = "TEE_SUCCESS"
    /\ Count("hread", "x") = 1 /\ Count("hread", "y") = 1
    /\ key.y = crypto_bignum_bin2bn(buf["y"].data) /\ key.y # 0

\* C10: for every scalar whose byte length n is at most the width W of its
\* field, do_keypriv_conv and do_keypub_conv produce a W-byte buffer whose
\* last n bytes are the scalar's big-endian bytes and whose first W - n
\* bytes are zero; read as a big-endian integer it is the scalar.
C10_RightJustified ==
    op \in {"sign", "verify"} =>
        \A r \in KeyNames :
            (Count("hwrite", r) = 1 /\ Fits(r)) =>
                LET n == crypto_bignum_num_bytes(key0[r])
                    W == IF r \in {"q", "x"} THEN in.n_bytes ELSE in.l_bytes
                    d == buf[r].data
                IN  /\ Len(d) = W
                    /\ \A i \in 1..(W - n) : d[i] = 0
                    /\ \A i \in 1..n : d[W - n + i] = crypto_bignum_bn2bin(key0[r])[i]
                    /\ crypto_bignum_bin2bn(d) = key0[r]

\* A generator g one byte shorter than its field: one zero byte, then g.
C10_Witness ==
    /\ op = "verify" /\ pc = "v_msg"
    /\ crypto_bignum_num_bytes(key0.g) = LBytes - 1 /\ key0.g # 0
    /\ buf["g"].data[1] = 0 /\ buf["g"].data[LBytes] = key0.g % 256

DomainAllocFailed == \E r \in DomainParams : Count("allocfail", r) > 0

\* The generator was called and left the three buffers unwritten.
GenerationFailed == gen = 1 /\ \A r \in DomainParams : Count("dwrite", r) = 0

NoKeygenJob ==
    /\ pc \in {"exit", "done"}
    /\ jr.n = 0 /\ ~Submitted
    /\ Count("desc_init", "desc") = 0 /\ desc = <<>>
    /\ Count("hread", "x") = 0 /\ Count("hread", "y") = 0
    /\ key.x = key0.x /\ key.y = key0.y

\* C11: in do_gen_keypair, a failed allocation of q, g or p gives
\* TEE_ERROR_OUT_OF_MEMORY and a failed domain parameter generation gives
\* TEE_ERROR_GENERIC; in both cases no key generation descriptor is built,
\* no job is submitted and x and y are not decoded.
C11_DomainParamFailure ==
    op = "gen" =>
        /\ DomainAllocFailed => (ret = "TEE_ERROR_OUT_OF_MEMORY" /\ NoKeygenJob)
        /\ GenerationFailed => (ret = "TEE_ERROR_GENERIC" /\ NoKeygenJob)

\* The generator failed after the three buffers were allocated.
C11_Witness ==
    /\ op = "gen" /\ pc = "done" /\ GenerationFailed
    /\ ret = "TEE_ERROR_GENERIC"
    /\ \A r \in DomainParams : Count("alloc", r) = 1 /\ Count("free", r) = 1

\* get_keypair_domain_params returned TEE_SUCCESS in this call.
DomainResolved ==
    /\ op = "gen" /\ ~GenerationFailed
    /\ \A r \in DomainParams : Count("alloc", r) = 1

PtrOf(r) == {desc[i].a : i \in {j \in 1..Len(desc) :
                 desc[j].k \in {"PTR", "PTR_LO"} /\ desc[j].v = r}}

C13_NoRetry ==
    op # "idle" =>
        /\ jr.n <= 1 /\ jr.n = Count("enqueue", "job")
        /\ Count("complete", "job") = Count("enqueue", "job")
        /\ pc \in {"g_res", "s_res", "v_res"} => jr.n = 1
        /\ (jr.n = 1 /\ Len(log) > 0) =>
               \A i \in 1..Len(log) :
                   i > LastIdx("complete", "job") => log[i] # <<"enqueue", "job">>

\* A sign call whose only submission failed in the transport.
C13_Witness ==
    /\ op = "sign" /\ pc = "done" /\ jr.n = 1
    /\ jr.ret = "CAAM_FAILURE" /\ ret = "TEE_ERROR_GENERIC"

\* The fixed-width buffers: the five key buffers and the scratch of do_verify.
FixedWidth == KeyNames \cup {"tmp"}

FixedSize(r) == IF r \in {"q", "x"} THEN in.n_bytes ELSE in.l_bytes

\* The buffers whose address is in the descriptor.
Referenced == {desc[i].v : i \in {j \in 1..Len(desc) : desc[j].k \in {"PTR", "PTR_LO"}}}

ZeroAllocated(r) ==
    /\ Count("alloc", r) = 1 /\ Count("zero", r) = 1
    /\ LastIdx("alloc", r) < LastIdx("zero", r)
    /\ Submitted => LastIdx("zero", r) < LastIdx("enqueue", "job")
    /\ buf[r].len = FixedSize(r)

\* C15: every fixed-width buffer whose address is in a submitted descriptor
\* (p, q, g, x, y and the scratch buffer of do_verify) was allocated
\* zero-initialised at its fixed size (L or N bytes) before the submission.
C15_ZeroInitialised ==
    AtSubmission => \A r \in Referenced \cap FixedWidth : ZeroAllocated(r)

\* The same for the key buffers alone.
C15_KeyBuffersZeroInitialised ==
    AtSubmission => \A r \in Referenced \cap KeyNames : ZeroAllocated(r)

\* C16: do_verify maps every pair (transport result, job status word) to one
\* outcome: CAAM_NO_ERROR to TEE_SUCCESS; CAAM_JOB_STATUS with a zero status
\* word to TEE_ERROR_SIGNATURE_INVALID; every other pair to the error mapped
\* from the status word.  TEE_SUCCESS comes from CAAM_NO_ERROR alone.
C16_VerifyClassification ==
    (op = "verify" /\ pc \in {"exit", "done"} /\ jr.n = 1) =>
        /\ jr.ret \in JrRets /\ jr.status \in JobStatuses
        /\ CASE jr.ret = "CAAM_NO_ERROR" -> ret = "TEE_SUCCESS"
             [] jr.ret = "CAAM_JOB_STATUS" /\ jr.status = 0 ->
                    ret = "TEE_ERROR_SIGNATURE_INVALID"
             [] OTHER -> ret = job_status_to_tee_result(jr.status)
        /\ ret = "TEE_SUCCESS" => jr.ret = "CAAM_NO_ERROR"

\* The job status was reported with a non-zero status word: a device failure.
C16_Witness ==
    /\ op = "verify" /\ pc = "done" /\ jr.n = 1
    /\ jr.ret = "CAAM_JOB_STATUS" /\ jr.status # 0
    /\ ret = "TEE_ERROR_GENERIC"

\* The caller's signature as it was on entry of the call.
SigOnEntry == [NoSig EXCEPT !.length = in.sig_len]

PtrFields == {i \in 1..Len(FieldOrder) : FieldOrder[i] \in BufNames}

WordsNeeded ==
    (Len(FieldOrder) - Cardinality(PtrFields))
        + Cardinality(PtrFields) * (IF cfg64 THEN 2 ELSE 1)

\* The capacities of the three descriptors, 32-bit / 64-bit.
Capacity ==
    CASE op = "gen" -> IF cfg64 THEN 14 ELSE 9
      [] op = "sign" -> IF cfg64 THEN 19 ELSE 12
      [] op = "verify" -> IF cfg64 THEN 21 ELSE 13
      [] OTHER -> 0

\* C18: the words written into the descriptor by do_gen_keypair, do_sign and
\* do_verify, counting one for the header, one for each parameter or opcode
\* word and one (32-bit) or two (64-bit) for each pointer, never exceed the
\* words allocated for it (9/14, 12/19 and 13/21).
C18_DescriptorCapacity ==
    (op # "idle" /\ Count("alloc", "desc") = 1) =>
        /\ buf["desc"].len = Capacity
        /\ Count("desc_add", "desc") <= buf["desc"].len
        /\ Len(desc) <= buf["desc"].len
        /\ WordsNeeded <= buf["desc"].len
        /\ AtSubmission =>
               /\ Len(desc) = WordsNeeded
               /\ Count("desc_add", "desc") = WordsNeeded

\* A verify descriptor of the 64-bit build: 20 words written of 21.
C18_Witness ==
    /\ op = "verify" /\ pc = "v_res" /\ cfg64
    /\ Len(desc) = MAX_DESC_VERIFY_64 - 1
    /\ buf["desc"].len = MAX_DESC_VERIFY_64

Components == IF op = "alloc_keypair" THEN KeyNames ELSE KeyNames \ {"x"}

\* C19: do_allocate_keypair and do_allocate_publickey either allocate every
\* component (g, p, q, x, y; g, p, q, y) and return TEE_SUCCESS, or return
\* TEE_ERROR_OUT_OF_MEMORY with every component allocated before the failing
\* one freed exactly once, whichever allocation failed.
C19_AllocateAllOrNothing ==
    (op \in {"alloc_keypair", "alloc_publickey"} /\ pc = "done") =>
        /\ \A r \in KeyNames \ Components : bn[r] = "null" /\ Count("bn_alloc", r) = 0
        /\ \/ /\ ret = "TEE_SUCCESS"
              /\ \A r \in Components :
                     /\ bn[r] = "live" /\ Count("bn_alloc", r) = 1
                     /\ Count("bn_free", r) = 0 /\ Count("bn_allocfail", r) = 0
           \/ /\ ret = "TEE_ERROR_OUT_OF_MEMORY"
              /\ Cardinality({r \in Components : Count("bn_allocfail", r) = 1}) = 1
              /\ \A r \in Components :
                     /\ bn[r] # "live"
                     /\ Count("bn_alloc", r) <= 1
                     /\ Count("bn_free", r) = Count("bn_alloc", r)
                     /\ Count("bn_alloc", r) = 1 => bn[r] = "freed"

\* The last allocation of a keypair failed: g, p, q and x were freed.
C19_Witness ==
    /\ op = "alloc_keypair" /\ pc = "done" /\ ret = "TEE_ERROR_OUT_OF_MEMORY"
    /\ Count("bn_allocfail", "y") = 1
    /\ \A r \in {"g", "p", "q", "x"} : bn[r] = "freed" /\ Count("bn_free", r) = 1

\* C20: a do_gen_keypair call that returns anything other than TEE_SUCCESS
\* (allocation failure, failed domain parameter generation, device failure
\* of the key generation job, failed decode of x or y) has modified none of
\* the caller's p, q, g, x, y.
C20_GenAtomic ==
    (op = "gen" /\ pc = "done" /\ ret # "TEE_SUCCESS") => key = key0

\* The failures that come before the generated domain parameters are
\* written back leave the caller's key as it was.
C20_UnchangedBeforeWriteBack ==
    (op = "gen" /\ pc = "done" /\ ret # "TEE_SUCCESS"
        /\ \A r \in DomainParams : Count("hread", r) = 0
        /\ Count("hread", "x") = 0) => key = key0

CountIn(l, kind, r) == Cardinality({i \in 1..Len(l) : l[i] = <<kind, r>>})

HasKind(l, kind) == \E i \in 1..Len(l) : l[i][1] = kind

\* The result of a call as its own inputs, its own allocations and its own
\* job decide it.
RetAlone(t) ==
    IF HasKind(t.log, "allocfail") THEN "TEE_ERROR_OUT_OF_MEMORY"
    ELSE IF HasKind(t.log, "dmafail") THEN "TEE_ERROR_GENERIC"
    ELSE IF t.op = "gen" /\ t.gen = 1 /\ CountIn(t.log, "dwrite", "p") = 0
         THEN "TEE_ERROR_GENERIC"
    ELSE IF t.jr.ret = "CAAM_NO_ERROR"
         THEN IF t.op = "gen" /\ t.key.y = t.key0.y THEN "TEE_ERROR_BAD_PARAMETERS"
              ELSE "TEE_SUCCESS"
    ELSE IF t.op = "verify" /\ t.jr.ret = "CAAM_JOB_STATUS" /\ t.jr.status = 0
         THEN "TEE_ERROR_SIGNATURE_INVALID"
    ELSE "TEE_ERROR_GENERIC"

\* Call t uses what it allocated itself: its descriptor points to its own
\* buffers, it frees what it allocated, its job context counts its own
\* submissions, and its result is the one it has alone.
OwnResources(t) ==
    /\ \A r \in BufNames :
           /\ CountIn(t.log, "alloc", r) <= 1
           /\ CountIn(t.log, "free", r) <= CountIn(t.log, "alloc", r)
           /\ t.buf[r].st = "live" <=>
                  (CountIn(t.log, "alloc", r) = 1 /\ CountIn(t.log, "free", r) = 0)
    /\ t.buf["desc"].st = "live" =>
           \A i \in 1..Len(t.desc) :
               t.desc[i].k \in {"PTR", "PTR_LO"} =>
                   /\ t.buf[t.desc[i].v].st = "live"
                   /\ t.desc[i].a = t.buf[t.desc[i].v].paddr
    /\ t.jr.n = CountIn(t.log, "enqueue", "job") /\ t.jr.n <= 1
    /\ t.jr.n = 0 => t.jr = NoJob
    /\ t.pc = "done" => Live(t.buf) = {}
    /\ t.pc = "done" /\ t.op \in {"gen", "sign", "verify"} => t.ret = RetAlone(t)
    /\ t.op = "idle" => t = NoCall

\* C14: two calls of do_gen_keypair, do_sign or do_verify interleaved on two
\* threads, with distinct caller objects, each use only the buffers, the
\* descriptor and the job context they allocated themselves: the live
\* buffers of the two never share storage, no descriptor points into the
\* other call's buffers, and each call returns the result it has alone.
C14_CallsIndependent ==
    /\ OwnResources(Locals) /\ OwnResources(other)
    /\ Blocks(buf) \cap Blocks(other.buf) = {}
    /\ Cardinality(Blocks(buf) \cup Blocks(other.buf))
           = Cardinality(Blocks(buf)) + Cardinality(Blocks(other.buf))

\* A sign call that has submitted its job while a verify call, started
\* before it and suspended, holds its buffers; then the verify call goes on.
C14_Witness ==
    /\ nsw = 2
    /\ op = "verify" /\ pc = "v_res" /\ jr.n = 1
    /\ other.op = "sign" /\ other.pc = "s_res" /\ other.jr.n = 1
    /\ other.jr.ret = "CAAM_NO_ERROR" /\ jr.ret = "CAAM_JOB_STATUS"
    /\ Cardinality(Blocks(buf) \cup Blocks(other.buf)) = 15

\* C21: the key codec never writes outside a buffer it allocated: in
\* do_keypriv_conv, do_keypub_conv and the encode branch of
\* get_keypair_domain_params the offset width - byte_length(scalar) of every
\* write is in 0..width, so no write starts before its buffer or ends after
\* it, also when a caller scalar is longer than the target width.
C21_CodecInBounds ==
    \A i \in 1..Len(log) : log[i][1] # "oob"

\* Scalars that fit their width are encoded inside their buffers.
C21_FittingScalarsInBounds ==
    (\A r \in KeyNames : Fits(r)) => \A i \in 1..Len(log) : log[i][1] # "oob"

\* C22: on a successful do_sign the number of bytes copied into the caller's
\* signature buffer never exceeds the signature.length the caller supplied
\* on entry, whatever the supplied length and the security size, a supplied
\* length smaller than 2 * size_sec included.
C22_CopyWithinSuppliedLength ==
    (op = "sign" /\ sig.written) => sig.copied <= in.sig_len

\* With a supplied length of at least 2 * size_sec the copy stays inside.
C22_CopyWithinWhenLongEnough ==
    (op = "sign" /\ sig.written /\ in.sig_len >= 2 * in.size_sec)
        => sig.copied <= in.sig_len

\* C23: in do_gen_keypair, do_sign and do_verify no resource is released
\* while the device may still use it: the descriptor and every buffer the
\* submitted descriptor refers to are freed only after the transport has
\* reported the completion or the failure of the submission, and none of
\* them is freed before a submission.
C23_FreedAfterCompletion ==
    \A i \in 1..Len(log) :
        (log[i][1] = "free" /\ log[i][2] \in Referenced \cup {"desc"}) =>
            /\ \A j \in 1..(i - 1) :
                   log[j] = <<"enqueue", "job">> =>
                       \E k \in (j + 1)..(i - 1) : log[k] = <<"complete", "job">>
            /\ \A j \in (i + 1)..Len(log) : log[j] # <<"enqueue", "job">>

\* A verify whose job the transport reported as failed, all its buffers
\* and its descriptor released afterwards.
C23_Witness ==
    /\ op = "verify" /\ pc = "done" /\ Submitted
    /\ jr.ret = "CAAM_FAILURE"
    /\ Referenced = {"g", "p", "q", "y", "msg", "sign_c", "sign_d", "tmp"}
    /\ \A r \in Referenced \cup {"desc"} : Count("free", r) = 1

\* Rounding up in the integers, without the width of size_t.
RoundUp(v, a) == ((v + a - 1) \div a) * a

\* The size dcp_alloc_memalign means to allocate, in the integers.
WantedSize ==
    LET cl == read_cacheline_size
    IN  cl + RoundUp(dcp.size + MEM_HDR_SIZE + (IF dcp.size = cl THEN cl ELSE 0), cl)

\* dcp_alloc_memalign has just returned a non-NULL address.
AllocReturned == dcp.fn = "calloc" /\ dcp.pc = "phys"

AreaEnd == dcp.ptr + dcp.alloc_size

\* The returned address is aligned, header and buffer are inside the
\* area calloc returned, and the header records the start of that area.
AlignedInArea ==
    /\ abuf.data # 0
    /\ abuf.data % read_cacheline_size = 0
    /\ dcp.ptr <= OF_MEM_HDR(abuf.data) /\ abuf.data <= AreaEnd
    /\ abuf.data + dcp.size <= AreaEnd
    /\ heap = {[addr |-> dcp.ptr, size |-> dcp.alloc_size]}
    /\ hdrs = {[at |-> OF_MEM_HDR(abuf.data), addr |-> dcp.ptr, size |-> dcp.alloc_size]}

\* dcp_free of a buffer leaves nothing of its allocation in the heap.
FreeReleases ==
    (dcp.fn = "free" /\ dcp.pc = "done" /\ dcp.ptr # 0) => (heap = {} /\ hdrs = {})

\* C24: for every requested size, every power-of-two cache line size and
\* every base address calloc returns, a non-NULL result r of
\* dcp_alloc_memalign is a multiple of the cache line size, the header
\* occupies [r - MEM_HDR_SIZE, r) inside the allocated area, [r, r + size)
\* lies inside the allocated area and the header records the address calloc
\* returned, so that dcp_free releases exactly that allocation; when the
\* allocation size does not fit size_t, NULL is returned and nothing is
\* allocated.
C24_AlignedAllocation ==
    /\ AllocReturned => AlignedInArea
    /\ (dcp.fn = "calloc" /\ ~dcp.buf_null /\ WantedSize > SIZE_MAX) =>
           (dcp.pc # "phys" /\ heap = {})
    /\ FreeReleases

\* The same for the sizes whose allocation size fits size_t.
C24_AlignedWhenSizeFits ==
    /\ (AllocReturned /\ WantedSize <= SIZE_MAX) => AlignedInArea
    /\ FreeReleases

\* C25: for a buffer returned by dcp_alloc_memalign every cache line that
\* overlaps [r, r + size), up to r + roundup(size, cache line size), lies
\* inside the allocated area, for every size and every base address.
C25_CacheLinesOwned ==
    AllocReturned =>
        /\ dcp.ptr <= abuf.data
        /\ abuf.data % read_cacheline_size = 0
        /\ abuf.data + RoundUp(dcp.size, read_cacheline_size) <= AreaEnd

\* The same for the sizes whose allocation size fits size_t.
C25_CacheLinesOwnedWhenSizeFits ==
    (AllocReturned /\ WantedSize <= SIZE_MAX) =>
        /\ dcp.ptr <= abuf.data
        /\ abuf.data % read_cacheline_size = 0
        /\ abuf.data + RoundUp(dcp.size, read_cacheline_size) <= AreaEnd

\* C26: dcp_calloc_align_buf returns BAD_PARAMETERS without allocating when
\* buf is NULL; returns OUT_OF_MEMORY when the aligned allocation fails or
\* when the physical address resolves to zero, and then has freed the
\* allocation it made; on TEE_SUCCESS the buffer has non-NULL data, a
\* non-zero physical address and the requested size.
C26_CallocAlignBufResults ==
    (dcp.fn = "calloc" /\ dcp.pc = "done") =>
        /\ dcp.buf_null <=> dcp.ret = "TEE_ERROR_BAD_PARAMETERS"
        /\ dcp.buf_null => (heap = {} /\ hdrs = {} /\ dcp.ptr = 0 /\ abuf = NoAlignBuf)
        /\ (~dcp.buf_null /\ (abuf.data = 0 \/ abuf.paddr = 0)) =>
               (dcp.ret = "TEE_ERROR_OUT_OF_MEMORY" /\ heap = {} /\ hdrs = {})
        /\ dcp.ret \in {"TEE_ERROR_BAD_PARAMETERS", "TEE_ERROR_OUT_OF_MEMORY", "TEE_SUCCESS"}
        /\ dcp.ret = "TEE_SUCCESS" =>
               /\ abuf.data # 0 /\ abuf.paddr # 0 /\ abuf.size = dcp.size
               /\ heap = {[addr |-> dcp.ptr, size |-> dcp.alloc_size]}

\* An allocation whose header does not start at the address calloc
\* returned was made, the physical address resolved to zero, the call
\* returned OUT_OF_MEMORY and the heap is empty again.
C26_Witness ==
    /\ dcp.fn = "calloc" /\ dcp.pc = "done"
    /\ dcp.ptr # 0 /\ OF_MEM_HDR(abuf.data) # dcp.ptr
    /\ abuf.paddr = 0
    /\ dcp.ret = "TEE_ERROR_OUT_OF_MEMORY"
    /\ heap = {}

\* The bytes of a buffer read as a big-endian integer.
RECURSIVE BigEndian(_)
BigEndian(s) ==
    IF s = <<>> THEN 0 ELSE 256 * BigEndian(SubSeq(s, 1, Len(s) - 1)) + s[Len(s)]

InputOf(m, n) == SubSeq(m, 1, n)
ResultOf(m, n) == SubSeq(m, n + 1, 2 * n)

\* C27: left_shift_buffer with distinct input and result buffers of
\* buffer_size bytes writes into result the input, read as a big-endian
\* integer, shifted left by one bit modulo 2^(8 * buffer_size): bit 7 of
\* each byte carries into bit 0 of the next more significant byte and the
\* top bit of the first byte is discarded; the input is left unchanged and
\* a buffer_size of 0 writes nothing.
C27_LeftShift ==
    /\ lsb.pc # "idle" =>
           /\ Len(lsb.mem) = 2 * lsb.n
           /\ InputOf(lsb.mem, lsb.n) = InputOf(lsb.mem0, lsb.n)
    /\ lsb.pc = "done" =>
           /\ BigEndian(ResultOf(lsb.mem, lsb.n))
                  = (2 * BigEndian(InputOf(lsb.mem0, lsb.n))) % Pow2(8 * lsb.n)
           /\ \A j \in 1..lsb.n :
                  lsb.mem[lsb.n + j]
                      = ((2 * lsb.mem0[j]) % 256)
                        + (IF j < lsb.n THEN lsb.mem0[j + 1] \div 128 ELSE 0)
           /\ lsb.n = 0 => lsb.mem = lsb.mem0

\* A shift done whose last byte carries into the byte before it and whose
\* first byte loses its top bit.
C27_Witness ==
    /\ lsb.pc = "done" /\ lsb.n >= 2
    /\ lsb.mem0[lsb.n] >= 128 /\ lsb.mem0[1] >= 128
    /\ lsb.mem[2 * lsb.n - 1] % 2 = 1
    /\ ResultOf(lsb.mem, lsb.n) # ResultOf(lsb.mem0, lsb.n)

\* C28: caam_dsa_init attempts to register the DSA operations
\* (alloc_keypair, alloc_publickey, gen_keypair, sign, verify) only when the
\* hardware reports at least one public key unit, and returns
\* CAAM_NO_ERROR if and only if that registration was attempted and
\* succeeded; without a public key unit, or when the registration is
\* rejected, it returns CAAM_FAILURE.
C28_InitRegisters ==
    /\ drv.attempts > 0 => drv.pknum >= 1
    /\ drv.state = "done" =>
           /\ drv.retstatus = "CAAM_NO_ERROR"
                  <=> (drv.attempts = 1 /\ drv.reg = "TEE_SUCCESS")
           /\ drv.retstatus # "CAAM_NO_ERROR" => drv.retstatus = "CAAM_FAILURE"
           /\ (drv.pknum = 0 \/ drv.reg # "TEE_SUCCESS") => drv.retstatus = "CAAM_FAILURE"
           /\ drv.ops = (IF drv.retstatus = "CAAM_NO_ERROR"
                         THEN {"alloc_keypair", "alloc_publickey", "gen_keypair",
                               "sign", "verify"}
                         ELSE {})
    /\ op # "idle" => drv.retstatus = "CAAM_NO_ERROR"

\* The hardware has public key units and the registration was rejected.
C28_Witness ==
    /\ drv.state = "done" /\ drv.pknum >= 1
    /\ drv.attempts = 1 /\ drv.reg = "TEE_ERROR_GENERIC"
    /\ drv.retstatus = "CAAM_FAILURE"

Init ==
    /\ cfg64 \in BOOLEAN
    /\ op = "idle" /\ pc = "idle"
    /\ in = NoIn /\ key = NoKey /\ key0 = NoKey /\ sig = NoSig
    /\ buf = [r \in BufNames |-> NoBuf]
    /\ desc = <<>> /\ jr = NoJob /\ gen = 0 /\ log = <<>>
    /\ bn = NoBignums
    /\ ret = "TEE_ERROR_GENERIC"
    /\ other = NoCall /\ nsw = 0
    /\ drv = NoDrv
    /\ ctr = MaxDminLine /\ heap = {} /\ hdrs = {}
    /\ abuf = NoAlignBuf /\ dcp = NoDcp /\ lsb = NoShift

Next ==
    \/ Call_caam_dsa_init
    \/ Call_do_gen_keypair
    \/ G_AllocDesc
    \/ G_AllocX
    \/ G_AllocY
    \/ G_DomainParams
    \/ G_BuildDesc
    \/ G_Enqueue
    \/ G_Result
    \/ G_Exit
    \/ Call_do_sign
    \/ S_AllocDesc
    \/ S_KeyConv
    \/ S_Msg
    \/ S_SignC
    \/ S_SignD
    \/ S_BuildDesc
    \/ S_Enqueue
    \/ S_Result
    \/ S_Exit
    \/ Call_do_verify
    \/ V_AllocDesc
    \/ V_KeyConv
    \/ V_Msg
    \/ V_SignC
    \/ V_SignD
    \/ V_AllocTmp
    \/ V_BuildDesc
    \/ V_Enqueue
    \/ V_Result
    \/ V_Exit
    \/ do_allocate_keypair
    \/ do_allocate_publickey
    \/ Return

Spec == Init /\ [][Next]_vars

(***************************************************************************)
(* Two calls interleaved.  The inputs and the outcomes of the environment  *)
(* are narrowed to keep the product of the two calls small: full-width or  *)
(* absent scalars, one security size, no scatter/gather table, the first   *)
(* device output, three results of the transport.  Allocation failures     *)
(* stay possible at every allocation point.                                *)
(***************************************************************************)
ParInputs ==
    /\ \A r \in KeyNames : key[r] \in {0, Ramp(Width(r))}
    /\ op = "gen" => (key.p = 0 <=> key.q = 0) /\ (key.p = 0 <=> key.g = 0)
    /\ op = "sign" => \A r \in {"g", "p", "q", "x"} : key[r] # 0
    /\ op = "verify" => \A r \in {"g", "p", "q", "y"} : key[r] # 0
    /\ in.size_sec \in {0, NBytes}
    /\ in.sig_len = 2 * in.size_sec

ParChoice ==
    /\ \A r \in DmaNames : ~buf[r].sgt
    /\ \A i \in 1..Len(log) : log[i][1] # "dmafail"
    /\ \A r \in BufNames, d \in 2..DevSeeds :
           buf[r].len > 0 => buf[r].data # DevBytes(buf[r].len, d)
    /\ jr.n > 0 => (jr.status = 0 <=> jr.ret # "CAAM_FAILURE")
    /\ ret # "TEE_ERROR_BAD_PARAMETERS"
    /\ drv.pknum <= 1

NextPar ==
    \/ Call_caam_dsa_init /\ ParChoice'
    \/ Call_do_gen_keypair /\ ParInputs'
    \/ G_AllocDesc
    \/ G_AllocX
    \/ G_AllocY
    \/ G_DomainParams /\ ParChoice'
    \/ G_BuildDesc
    \/ G_Enqueue /\ ParChoice'
    \/ G_Result /\ ParChoice'
    \/ G_Exit
    \/ Call_do_sign /\ ParInputs'
    \/ S_AllocDesc
    \/ S_KeyConv
    \/ S_Msg /\ ParChoice'
    \/ S_SignC /\ ParChoice'
    \/ S_SignD /\ ParChoice'
    \/ S_BuildDesc
    \/ S_Enqueue /\ ParChoice'
    \/ S_Result
    \/ S_Exit
    \/ Call_do_verify /\ ParInputs'
    \/ V_AllocDesc
    \/ V_KeyConv
    \/ V_Msg /\ ParChoice'
    \/ V_SignC /\ ParChoice'
    \/ V_SignD /\ ParChoice'
    \/ V_AllocTmp
    \/ V_BuildDesc
    \/ V_Enqueue /\ ParChoice'
    \/ V_Result
    \/ V_Exit
    \/ Return
    \/ Switch

SpecPar == Init /\ [][NextPar]_vars

(***************************************************************************)
(* The DCP utilities on their own: any cache line size of the hardware,    *)
(* no DSA call.                                                            *)
(***************************************************************************)
InitDcp ==
    /\ cfg64 \in BOOLEAN
    /\ op = "idle" /\ pc = "idle"
    /\ in = NoIn /\ key = NoKey /\ key0 = NoKey /\ sig = NoSig
    /\ buf = [r \in BufNames |-> NoBuf]
    /\ desc = <<>> /\ jr = NoJob /\ gen = 0 /\ log = <<>>
    /\ bn = NoBignums
    /\ ret = "TEE_ERROR_GENERIC"
    /\ other = NoCall /\ nsw = 0
    /\ drv = NoDrv
    /\ ctr \in 0..MaxDminLine /\ heap = {} /\ hdrs = {}
    /\ abuf = NoAlignBuf /\ dcp = NoDcp /\ lsb = NoShift

NextDcp ==
    \/ Call_dcp_calloc_align_buf
    \/ D_AllocMemalign
    \/ D_VirtToPhys
    \/ Call_dcp_free
    \/ D_Return

SpecDcp == InitDcp /\ [][NextDcp]_vars

(***************************************************************************)
(* left_shift_buffer on its own.                                           *)
(***************************************************************************)
NextShift ==
    \/ Call_left_shift_buffer
    \/ L_Step
    \/ L_Exit
    \/ L_Return

SpecShift == Init /\ [][NextShift]_vars

====
